---- MODULE Spec2Model ----
(***************************************************************************)
(* Publish orchestration of AbstractWordPressClient                        *)
(* (src/src/abstract-wp-client.ts, the class that starts at line 577).     *)
(*                                                                         *)
(* Every publishPost invocation is an attempt.  An attempt runs between    *)
(* its awaits as one atomic step (JavaScript is single threaded), and the  *)
(* attempts interleave at the awaits: remote calls, file reads and the     *)
(* modals.  The remote backend and the user are the environment: their     *)
(* answers are drawn with \E.                                              *)
(***************************************************************************)
EXTENDS Integers, Sequences, FiniteSets, TLC

(***************************************************************************)
(* Bounds                                                                  *)
(***************************************************************************)
\* publishPost invocations in the run of many invocations
MaxAttempts == 3
\* publishPost invocations in every other run
MaxRepublish == 2
\* confirmations of the publish modal within one attempt
MaxSubmits == 1

Attempts == 1..(IF MaxAttempts > MaxRepublish THEN MaxAttempts ELSE MaxRepublish)
Docs == {"d1", "d2"}
NoFile == "nofile"

(***************************************************************************)
(* Values                                                                  *)
(***************************************************************************)
\* An optional scalar that is absent (undefined).
NoStr == "(undefined)"
\* An optional array: None is undefined, Some(s) is the array s.
None == <<>>
Some(s) == <<s>>
IsSome(o) == Len(o) = 1
Get(o) == o[1]

\* wp_url values.  form "absent": no key; "empty": the empty string;
\* "p": <endpoint>/?p=<id>; "slug": a permalink of post <id>.
NoUrl == [form |-> "absent", id |-> 0]
EmptyUrl == [form |-> "empty", id |-> 0]
PUrl(n) == [form |-> "p", id |-> n]
SlugUrl(n) == [form |-> "slug", id |-> n]
\* JavaScript truthiness of a wp_url value
UrlTruthy(u) == u.form \in {"p", "slug"}

\* A wp_categories element: a category name (string) or a category ID (number).
CName(s) == [isName |-> TRUE, name |-> s, id |-> 0]
CId(n) == [isName |-> FALSE, name |-> "", id |-> n]

\* this.profile.name, and the post type 'post'
ProfileName == "P1"
PostTypePost == "post"
\* WP_DEFAULT_PROFILE_NAME
DefaultProfileName == "Default"

\* The remote backend's categories (Term: id, name).
RemoteCats == << [id |-> 1, name |-> "Uncategorized"], [id |-> 2, name |-> "News"] >>

\* String.prototype.toLowerCase on the names of the model
Lower(s) ==
  CASE s = "News" -> "news"
    [] s = "NEWS" -> "news"
    [] s = "Uncategorized" -> "uncategorized"
    [] s = "Ghost" -> "ghost"
    [] OTHER -> s

(***************************************************************************)
(* Image references and the media relay's rewriting                        *)
(***************************************************************************)
\* An image reference of a body.  form "md": ![alt|WxH](src), "wiki":
\* ![[src|WxH]]; w and h are the captured digits, "" when not given;
\* srcIsUrl: isValidUrl(src); found: getFirstLinkpathDest finds a TFile.
\* A body is the sequence of its image references.
Img(form, src, w, h, srcIsUrl, found) ==
  [form |-> form, src |-> src, w |-> w, h |-> h, srcIsUrl |-> srcIsUrl, found |-> found]

\* result.data.url of the upload of the file named src
MediaUrl(src) ==
  CASE src = "cat.png" -> "https://wp/cat.png"
    [] src = "dog.png" -> "https://wp/dog.png"
    [] OTHER -> "https://wp/file"

\* getImages: the md references first, then the wiki references
GetImages(content) ==
  SelectSeq(content, LAMBDA i : i.form = "md") \o SelectSeq(content, LAMBDA i : i.form = "wiki")

\* a variant that keeps the width only
EmbedWidthOnly(img, url) ==
  IF img.w # "" THEN Img("wiki", url, img.w, "", TRUE, FALSE)
  ELSE Img("wiki", url, "", "", TRUE, FALSE)

\* the embed that replaces img.original: ![[url|WxH]], ![[url|W]] or ![[url]]
Embed(img, url) ==
  IF img.w # "" /\ img.h # "" THEN Img("wiki", url, img.w, img.h, TRUE, FALSE)
  ELSE IF img.w # "" THEN Img("wiki", url, img.w, "", TRUE, FALSE)
  ELSE Img("wiki", url, "", "", TRUE, FALSE)

\* content.replace(img.original, embed): the first occurrence is replaced
ReplaceFirst(content, original, embed) ==
  LET hits == {i \in 1..Len(content) : content[i] = original}
  IN IF hits = {} THEN content
     ELSE [content EXCEPT ![CHOOSE i \in hits : \A j \in hits : i <= j] = embed]

\* a variant that uploads every image whose file is found or whose source is
\* a URL
UploadableWithUrls(content) ==
  SelectSeq(GetImages(content), LAMBDA i : i.srcIsUrl \/ i.found)

\* the images of a body that updatePostImages uploads
Uploadable(content) ==
  SelectSeq(GetImages(content), LAMBDA i : ~i.srcIsUrl /\ i.found)

\* the answers of uploadMedia: OK, an error with code ServerInternalError,
\* any other error
UploadAnswers == {"ok", "serverError", "failed"}

(***************************************************************************)
(* Sequence helpers                                                        *)
(***************************************************************************)
RECURSIVE Dedup(_)
\* [...new Set(xs)]: the first occurrence of every element, in order
Dedup(xs) ==
  IF xs = <<>> THEN <<>>
  ELSE LET r == Dedup(SubSeq(xs, 1, Len(xs) - 1))
           x == xs[Len(xs)]
       IN IF \E i \in 1..Len(r) : r[i] = x THEN r ELSE Append(r, x)

RECURSIVE FlatMap(_, _)
\* the concatenation of f[x] over xs
FlatMap(f, xs) ==
  IF xs = <<>> THEN <<>> ELSE f[Head(xs)] \o FlatMap(f, Tail(xs))

(***************************************************************************)
(* Term resolver                                                           *)
(***************************************************************************)
\* allCategories.find(cat => cat.name.toLowerCase() === name.toLowerCase())
FindCatByName(name) ==
  LET hits == {i \in 1..Len(RemoteCats) : Lower(RemoteCats[i].name) = Lower(name)}
  IN IF hits = {} THEN 0
     ELSE RemoteCats[CHOOSE i \in hits : \A j \in hits : i <= j].id

\* allCategories.find(cat => parseInt(cat.id, 10) === id)
FindCatById(id) ==
  LET hits == {i \in 1..Len(RemoteCats) : RemoteCats[i].id = id}
  IN IF hits = {} THEN None
     ELSE Some(RemoteCats[CHOOSE i \in hits : \A j \in hits : i <= j].name)

\* the names of categoryNames with no remote match (missingCategories)
MissingCategories(names) ==
  SelectSeq(names, LAMBDA n : FindCatByName(n) = 0)

\* a variant that returns the IDs as the loop pushed them
ConvertKeepsDuplicates(names, listOk) ==
  IF ~listOk THEN <<1>>
  ELSE LET ids == [i \in 1..Len(names) |->
                     IF FindCatByName(names[i]) = 0 THEN 1 ELSE FindCatByName(names[i])]
       IN IF Len(ids) > 0 THEN ids ELSE <<1>>

\* convertCategoryNamesToIds; listOk: getCategories did not throw
ConvertCategoryNamesToIds(names, listOk) ==
  IF ~listOk THEN <<1>>
  ELSE LET ids == [i \in 1..Len(names) |->
                     IF FindCatByName(names[i]) = 0 THEN 1 ELSE FindCatByName(names[i])]
           uniqueIds == Dedup(ids)
       IN IF Len(uniqueIds) > 0 THEN uniqueIds ELSE <<1>>

\* a variant that puts the default name in the place of an unmatched ID
ConvertIdsDefaultsUnmatched(ids, listOk) ==
  IF ~listOk \/ ids = <<>> THEN <<"Uncategorized">>
  ELSE [i \in 1..Len(ids) |->
          IF IsSome(FindCatById(ids[i])) THEN Get(FindCatById(ids[i]))
          ELSE "Uncategorized"]

\* convertCategoryIdsToNames; listOk: getCategories did not throw
ConvertCategoryIdsToNames(ids, listOk) ==
  IF ~listOk THEN <<"Uncategorized">>
  ELSE LET names == FlatMap([n \in {ids[i] : i \in 1..Len(ids)} |-> FindCatById(n)], ids)
       IN IF Len(names) > 0 THEN names ELSE <<"Uncategorized">>

\* wp_categories elements seen as the names / the IDs the code casts them to
AsNames(cs) == [i \in 1..Len(cs) |-> cs[i].name]
AsIds(cs) == [i \in 1..Len(cs) |-> cs[i].id]
FromNames(ns) == [i \in 1..Len(ns) |-> CName(ns[i])]
FromIds(ns) == [i \in 1..Len(ns) |-> CId(ns[i])]

(***************************************************************************)
(* Documents and their metadata blocks                                     *)
(***************************************************************************)
\* MatterData: the six wp_ keys of a front-matter block, and the set of the
\* other keys it holds
Block(url, profile, ptype, cats, tags, title) ==
  [wp_url |-> url, wp_profile |-> profile, wp_ptype |-> ptype,
   wp_categories |-> cats, wp_tags |-> tags, wp_title |-> title, other |-> {}]

\* a block that also holds keys the plugin does not know
WithKeys(block, keys) == [block EXCEPT !.other = keys]

EmptyBlock == Block(NoUrl, NoStr, NoStr, None, None, NoStr)

\* Object.keys(matterData).some(key => key.startsWith('wp_'))
HasWpKeys(m) ==
  \/ m.wp_url.form # "absent"
  \/ m.wp_profile # NoStr
  \/ m.wp_ptype # NoStr
  \/ IsSome(m.wp_categories)
  \/ IsSome(m.wp_tags)
  \/ m.wp_title # NoStr

\* a variant that looks for the markers in the parsed block only
HasWpTextInBlock(m, marker) ==
  \/ m.wp_url.form # "absent"
  \/ m.wp_profile # NoStr
  \/ m.wp_ptype # NoStr
  \/ IsSome(m.wp_categories)

\* the raw text of a file with block m holds 'wp_url:', 'wp_profile:',
\* 'wp_ptype:' or 'wp_categories:'; marker: the text outside the block holds one
HasWpText(m, marker) ==
  \/ marker
  \/ m.wp_url.form # "absent"
  \/ m.wp_profile # NoStr
  \/ m.wp_ptype # NoStr
  \/ IsSome(m.wp_categories)

\* The blocks a run may start with.
PublishedByP(n) ==
  Block(PUrl(n), ProfileName, PostTypePost,
        Some(<<CName("News"), CName("Ghost")>>), Some(<<"t1">>), NoStr)
PublishedOtherProfile(n) ==
  Block(SlugUrl(n), "P0", NoStr, Some(<<CId(2)>>), None, "Custom")
EmptyUrlBlock ==
  Block(EmptyUrl, ProfileName, NoStr, None, Some(<<>>), NoStr)
MixedCaseNames ==
  Block(NoUrl, NoStr, NoStr,
        Some(<<CName("NEWS"), CName("News"), CName("Ghost"), CName("Uncategorized")>>),
        None, NoStr)
LegacyIds(n) ==
  Block(PUrl(n), ProfileName, NoStr, Some(<<CId(3), CId(2)>>), None, NoStr)
EmptyCategories ==
  Block(NoUrl, NoStr, NoStr, Some(<<>>), None, NoStr)
TwoTags ==
  Block(NoUrl, NoStr, NoStr, None, Some(<<"t1", "t2">>), NoStr)
PageLegacyIds(n) ==
  Block(PUrl(n), ProfileName, "page", Some(<<CId(2), CId(3)>>), None, NoStr)
PublishedPage(n) ==
  WithKeys(Block(PUrl(n), ProfileName, "page", Some(<<CName("News")>>), Some(<<"t1">>),
                 "Custom"),
           {"aliases"})

\* What stays the same during a run: the profile (endpoint, stored
\* credentials: "none", or "valid" / "invalid" for the backend), the setting
\* rememberLastSelectedCategories, and the collaborators (whether the
\* backend lists its categories, whether the client's getPostsBySlug finds a
\* post: the one of this class finds none, the shape of the client's
\* non-error publish results: <<a postId is reported, the form of the
\* postUrl>>, and what the publish modal's updateMatterData callback does),
\* and the setting replaceMediaLinks.
Config(endpoint, creds, remember, listOk, slugFound, shape, override, replace) ==
  [endpoint |-> endpoint, creds |-> creds, remember |-> remember,
   listOk |-> listOk, slugFound |-> slugFound, shape |-> shape,
   override |-> override, replace |-> replace, saves |-> TRUE, bareDefaults |-> FALSE,
   edits |-> FALSE]

PlainConfig == Config(TRUE, "none", FALSE, TRUE, FALSE, <<TRUE, "slug">>, "keep", FALSE)
ValidConfig == Config(TRUE, "valid", TRUE, TRUE, TRUE, <<TRUE, "none">>, "ptype", TRUE)
InvalidConfig == Config(TRUE, "invalid", TRUE, FALSE, FALSE, <<FALSE, "p">>, "keep", FALSE)
BareConfig == Config(TRUE, "none", TRUE, TRUE, TRUE, <<FALSE, "none">>, "ptype", FALSE)
\* saves: this.plugin.saveSettings() never rejects; in UnsavedConfig it may
UnsavedConfig ==
  [Config(TRUE, "none", TRUE, TRUE, TRUE, <<TRUE, "slug">>, "keep", FALSE)
     EXCEPT !.saves = FALSE]
\* the publish modal's callback writes the post type, nothing is remembered
OverrideConfig == Config(TRUE, "none", FALSE, TRUE, FALSE, <<TRUE, "slug">>, "ptype", FALSE)
\* edits: while an attempt is under way the user (or a sync tool) changes
\* the tags and categories in the block of its document
EditingConfig == [PlainConfig EXCEPT !.edits = TRUE]
\* bareDefaults: the defaultPostParams the commands pass carry no categories
BareDefaultsConfig == [PlainConfig EXCEPT !.bareDefaults = TRUE]
NoEndpointConfig == Config(FALSE, "valid", FALSE, TRUE, TRUE, <<TRUE, "slug">>, "keep", FALSE)

PlainDoc == [block |-> EmptyBlock, marker |-> FALSE, body |-> <<>>]
MarkerDoc == [block |-> EmptyBlock, marker |-> TRUE, body |-> <<>>]
Doc(block) == [block |-> block, marker |-> FALSE, body |-> <<>>]

\* a body with two local images and one remote image
ImageBody ==
  << Img("wiki", "cat.png", "300", "200", FALSE, TRUE),
     Img("md", "https://x/y.png", "", "", TRUE, FALSE),
     Img("md", "dog.png", "40", "", FALSE, TRUE) >>
ImageDoc(block) == [block |-> block, marker |-> FALSE, body |-> ImageBody]

\* a body that holds the same reference to a local image twice, without a
\* size annotation
TwinImageBody ==
  << Img("wiki", "pic.png", "", "", FALSE, TRUE),
     Img("wiki", "pic.png", "", "", FALSE, TRUE) >>
TwinImageDoc(block) == [block |-> block, marker |-> FALSE, body |-> TwinImageBody]

\* A run: the publishPost invocations the user makes, the documents of the
\* vault, the first document, what stays the same, and whether the commands
\* of the run pass defaultPostParams.  In the run of many invocations, in
\* the runs with two documents, in the run with images and in the run whose
\* settings cannot be saved every command passes them; in the others a
\* command may or may not.
Run(n, docs, doc1, c, with) ==
  [invocations |-> n, vault |-> docs, doc1 |-> doc1, doc2 |-> PlainDoc, config |-> c,
   callers |-> with]

\* A run whose second document is not a plain one.
RunWith(n, doc1, doc2, c, with) ==
  [invocations |-> n, vault |-> Docs, doc1 |-> doc1, doc2 |-> doc2, config |-> c,
   callers |-> with]

\* The runs: many invocations in a vault of one plain document, or fewer
\* with other documents and collaborators.
Runs ==
  { Run(MaxAttempts, {"d1"}, PlainDoc, PlainConfig, {TRUE}),
    Run(MaxRepublish, Docs, PlainDoc, PlainConfig, {TRUE}),
    Run(MaxRepublish, {"d1"}, PlainDoc, ValidConfig, BOOLEAN),
    Run(MaxRepublish, {"d1"}, PlainDoc, InvalidConfig, BOOLEAN),
    Run(MaxRepublish, {"d1"}, PlainDoc, BareConfig, BOOLEAN),
    Run(MaxRepublish, {"d1"}, PlainDoc, NoEndpointConfig, BOOLEAN),
    Run(MaxRepublish, {"d1"}, MarkerDoc, PlainConfig, BOOLEAN),
    Run(MaxRepublish, {"d1"}, Doc(PublishedByP(1)), PlainConfig, BOOLEAN),
    Run(MaxRepublish, {"d1"}, Doc(PublishedByP(1)), InvalidConfig, BOOLEAN),
    Run(MaxRepublish, {"d1"}, Doc(PublishedOtherProfile(1)), ValidConfig, BOOLEAN),
    Run(MaxRepublish, {"d1"}, Doc(PublishedOtherProfile(1)), PlainConfig, BOOLEAN),
    Run(MaxRepublish, {"d1"}, Doc(EmptyUrlBlock), PlainConfig, BOOLEAN),
    Run(MaxRepublish, {"d1"}, Doc(EmptyUrlBlock), BareConfig, BOOLEAN),
    Run(MaxRepublish, {"d1"}, ImageDoc(PublishedByP(1)), ValidConfig, {TRUE}),
    RunWith(MaxRepublish, PlainDoc, Doc(PublishedPage(1)), PlainConfig, {TRUE}),
    Run(MaxRepublish, {"d1"}, PlainDoc, UnsavedConfig, {TRUE}),
    Run(MaxRepublish, {"d1"}, Doc(TwoTags), PlainConfig, {TRUE}),
    Run(MaxRepublish, {"d1"}, Doc(MixedCaseNames), PlainConfig, {TRUE}),
    Run(MaxRepublish, {"d1"}, Doc(LegacyIds(1)), PlainConfig, {TRUE}),
    RunWith(MaxRepublish, PlainDoc, Doc(EmptyCategories), UnsavedConfig, {TRUE}),
    Run(MaxRepublish, {"d1"}, TwinImageDoc(PublishedByP(1)), PlainConfig, {TRUE}),
    RunWith(MaxRepublish, Doc(PageLegacyIds(1)), Doc(PublishedPage(1)), BareDefaultsConfig,
            {TRUE}),
    Run(MaxRepublish, {"d1"}, PlainDoc, BareDefaultsConfig, {TRUE}),
    RunWith(MaxRepublish, PlainDoc, Doc(PublishedPage(1)), OverrideConfig, {FALSE}),
    Run(MaxRepublish, {"d1"}, Doc(PublishedByP(1)), EditingConfig, {FALSE}) }

\* file.basename, and file.stat.size
Basename(d) == d
FileSize(d) == 1

(***************************************************************************)
(* Publish parameters and remote results                                   *)
(***************************************************************************)
\* WordPressPostParams (the fields the orchestration reads or writes);
\* postId 0: no postId
PostParams(ptype, cats, tags, title, postId, profileName) ==
  [postType |-> ptype, categories |-> cats, tags |-> tags, title |-> title,
   postId |-> postId, profileName |-> profileName]

NoParams == PostParams(NoStr, <<>>, <<>>, "", 0, NoStr)
\* the defaultPostParams a caller passes to publishPost
DefaultPostParams == PostParams(PostTypePost, <<2>>, <<>>, "", 0, NoStr)
\* defaultPostParams without categories
BareDefaultParams == PostParams(PostTypePost, <<>>, <<>>, "", 0, NoStr)

\* WordPressPublishResult of a non-error result; postId 0: no postId
NoResult == [postId |-> 0, postUrl |-> NoUrl, categories |-> <<>>]

\* Term.id of the tag the backend resolves or creates for a name
TagId(name) ==
  CASE name = "t1" -> "101"
    [] name = "t2" -> "102"
    [] OTHER -> "100"

(***************************************************************************)
(* State                                                                   *)
(***************************************************************************)
VARIABLES
  publishInProgress,  \* AbstractWordPressClient.publishInProgress
  meta,               \* the persisted front-matter block of every document
  marker,             \* per document: its text outside the block holds a wp_ marker
  body,               \* per document: the image references of its live text
  config,             \* the profile, the settings and the collaborators
  invocations,        \* the publishPost invocations the user makes in this run
  vault,              \* the documents the user can make the active file
  callers,            \* whether the commands of this run pass defaultPostParams
  lastSelected,       \* profile.lastSelectedCategories
  posts,              \* the backend holds the posts 1..posts
  started,            \* publishPost invocations so far
  att                 \* per attempt: the locals of its publishPost invocation

vars == <<publishInProgress, meta, marker, body, config, invocations, vault, callers,
          lastSelected, posts, started, att>>

\* workspace.getActiveFile(): the user may make another document, or none,
\* the active one at any await, so every call of it draws its answer
Files == vault \cup {NoFile}

\* An attempt before publishPost is invoked.
InitAtt ==
  [pc |-> "idle", doc |-> NoFile, hasDefault |-> FALSE, acquired |-> FALSE,
   auth |-> "none", matter |-> EmptyBlock, readUrl |-> NoUrl, useNew |-> FALSE,
   class |-> "none", pp |-> NoParams, origTags |-> <<>>, override |-> "none",
   viaModal |-> FALSE, modalOpened |-> FALSE, submits |-> 0,
   mfile |-> NoFile, catNew |-> None, catExisting |-> None, res |-> NoResult,
   mergePre |-> None, mergeBuiltin |-> None,
   outcome |-> "none", errors |-> 0, remote |-> FALSE, pubCalls |-> <<>>,
   merges |-> 0, created |-> 0, callFailed |-> "no", afterAll |-> FALSE,
   content |-> <<>>, ppContent |-> <<>>, todo |-> <<>>, ups |-> <<>>, editorFile |-> NoFile,
   sentBody |-> None, log |-> <<>>, tagCalls |-> <<>>, catNotices |-> 0,
   validations |-> <<>>]

Init ==
  /\ publishInProgress = FALSE
  /\ \E run \in Runs :
       /\ meta = [d \in Docs |-> IF d = "d1" THEN run.doc1.block ELSE run.doc2.block]
       /\ marker = [d \in Docs |-> IF d = "d1" THEN run.doc1.marker ELSE run.doc2.marker]
       /\ body = [d \in Docs |-> IF d = "d1" THEN run.doc1.body ELSE run.doc2.body]
       /\ config = run.config
       /\ invocations = run.invocations
       /\ vault = run.vault
       /\ callers = run.callers
  /\ lastSelected = None
  /\ posts = 1
  /\ started = 0
  /\ att = [a \in Attempts |-> InitAtt]

(***************************************************************************)
(* Helpers of the orchestration                                            *)
(***************************************************************************)
\* extractPostIdFromUrl; slugFound: getPostsBySlug returned the post.
\* 0 stands for null.
ExtractPostIdFromUrl(u, slugFound) ==
  CASE u.form = "p" -> u.id
    [] u.form = "slug" -> IF slugFound THEN u.id ELSE 0
    [] OTHER -> 0

\* a variant that checks numeric elements against the remote categories
CategoriesOrLookedUp(cats, dflt, listOk) ==
  IF IsSome(cats) /\ Len(Get(cats)) > 0
  THEN IF Get(cats)[1].isName
       THEN ConvertCategoryNamesToIds(AsNames(Get(cats)), listOk)
       ELSE [i \in 1..Len(Get(cats)) |->
               IF IsSome(FindCatById(Get(cats)[i].id)) THEN Get(cats)[i].id ELSE 1]
  ELSE dflt

\* A categories array of the metadata or of the profile as the IDs of the
\* remote call: names are converted, numbers are taken as they are, and an
\* absent or empty array falls back to dflt.
CategoriesOr(cats, dflt, listOk) ==
  IF IsSome(cats) /\ Len(Get(cats)) > 0
  THEN IF Get(cats)[1].isName
       THEN ConvertCategoryNamesToIds(AsNames(Get(cats)), listOk)
       ELSE AsIds(Get(cats))
  ELSE dflt

\* the Notices "Categories not found: ..." one conversion of a categories
\* array shows: one when the array holds names, the list was fetched and a
\* name has no match
NoticesOf(cats, listOk) ==
  IF /\ IsSome(cats) /\ Len(Get(cats)) > 0 /\ Get(cats)[1].isName /\ listOk
     /\ MissingCategories(AsNames(Get(cats))) # <<>>
  THEN 1 ELSE 0

\* the Notices of computing categoriesForAPI / selectedCategories
CategoriesNotices(m, last, listOk) ==
  IF IsSome(m.wp_categories) /\ Len(Get(m.wp_categories)) > 0
  THEN NoticesOf(m.wp_categories, listOk)
  ELSE NoticesOf(last, listOk)

\* the Notices of readFromFrontMatter
ReadNotices(m, last, listOk) ==
  IF (m.wp_ptype = NoStr \/ m.wp_ptype = PostTypePost) /\ IsSome(m.wp_categories)
  THEN CategoriesNotices(m, last, listOk)
  ELSE 0

\* the defaultPostParams of the commands of this run
DefaultParams == IF config.bareDefaults THEN BareDefaultParams ELSE DefaultPostParams

\* getAuth, called n times in the step named phase: with stored credentials
\* each call sends them to validateUser (and opens the login modal when they
\* are rejected); without stored credentials it calls nothing
GetAuthCalls(phase, n) ==
  IF config.creds # "none" THEN [i \in 1..n |-> phase] ELSE <<>>

\* the list is one of names, which readFromFrontMatter converts with a
\* getAuth of its own
ConvertsNames(cats) == IsSome(cats) /\ Len(Get(cats)) > 0 /\ Get(cats)[1].isName

\* the getAuth calls of readFromFrontMatter
ReadAuthCalls(m, last) ==
  IF /\ m.wp_ptype = NoStr \/ m.wp_ptype = PostTypePost
     /\ IsSome(m.wp_categories)
     /\ IF Len(Get(m.wp_categories)) > 0 THEN ConvertsNames(m.wp_categories)
        ELSE ConvertsNames(last)
  THEN 1 ELSE 0

\* the getAuth calls of the pre-conversion in tryToPublish: one for the
\* outgoing categories, one for legacy IDs in the file
PreMergeAuthCalls(pp, cur) ==
  (IF Len(pp.categories) > 0 THEN 1 ELSE 0)
  + (IF IsSome(cur) /\ Len(Get(cur)) > 0 /\ ~Get(cur)[1].isName THEN 1 ELSE 0)

\* the getAuth call before the remembered categories are converted
SideAuthCalls(res) == IF res.postId # 0 /\ config.remember THEN 1 ELSE 0

\* categoriesForAPI / selectedCategories of publishPost
CategoriesForAPI(m, last, listOk) ==
  CategoriesOr(m.wp_categories, CategoriesOr(last, <<1>>, listOk), listOk)

\* the baseParams publishPost builds when no defaultPostParams is given
BaseParams(m, last, listOk) ==
  PostParams(IF m.wp_ptype # NoStr THEN m.wp_ptype ELSE PostTypePost,
             CategoriesForAPI(m, last, listOk),
             IF IsSome(m.wp_tags) THEN Get(m.wp_tags) ELSE <<>>,
             "", 0, NoStr)

\* readFromFrontMatter
ReadFromFrontMatter(noteTitle, m, params, last, listOk, slugFound) ==
  LET title == IF m.wp_title # NoStr /\ m.wp_title # "" THEN m.wp_title ELSE noteTitle
      found == IF UrlTruthy(m.wp_url) THEN ExtractPostIdFromUrl(m.wp_url, slugFound) ELSE 0
      postId == IF found # 0 THEN found ELSE params.postId
      profileName == IF m.wp_profile # NoStr THEN m.wp_profile ELSE DefaultProfileName
      postType == IF m.wp_ptype # NoStr THEN m.wp_ptype ELSE PostTypePost
      cats == IF postType = PostTypePost /\ IsSome(m.wp_categories)
              THEN CategoriesForAPI(m, last, listOk)
              ELSE params.categories
      tags == IF postType = PostTypePost /\ IsSome(m.wp_tags)
              THEN Get(m.wp_tags)
              ELSE params.tags
  IN PostParams(postType, cats, tags, title, postId, profileName)

\* Object.assign(matterData, retryMatterData): the keys of src replace dst's
ObjectAssign(dst, src) ==
  WithKeys(
  Block(IF src.wp_url.form # "absent" THEN src.wp_url ELSE dst.wp_url,
        IF src.wp_profile # NoStr THEN src.wp_profile ELSE dst.wp_profile,
        IF src.wp_ptype # NoStr THEN src.wp_ptype ELSE dst.wp_ptype,
        IF IsSome(src.wp_categories) THEN src.wp_categories ELSE dst.wp_categories,
        IF IsSome(src.wp_tags) THEN src.wp_tags ELSE dst.wp_tags,
        IF src.wp_title # NoStr THEN src.wp_title ELSE dst.wp_title),
  dst.other \cup src.other)

\* isProfileNameMismatch of checkExistingProfile
ProfileMismatch(m) == m.wp_profile # NoStr /\ m.wp_profile # "" /\ m.wp_profile # ProfileName

\* checkExistingProfile when the user chooses the new profile
UseNewProfile(m, last) ==
  [m EXCEPT !.wp_url = NoUrl,
            !.wp_categories = IF IsSome(last) /\ Len(Get(last)) > 0
                              THEN last ELSE Some(<<CId(1)>>)]

\* a variant of hasExistingPost that tests the presence of the key
HasUrlKey(m) == m.wp_url.form # "absent"

\* hasExistingPost of publishPost
HasExistingPost(m) == UrlTruthy(m.wp_url)

(***************************************************************************)
(* Metadata merge (the processFrontMatter callback of tryToPublish)        *)
(***************************************************************************)
\* a variant of the URL policy that prefers the URL of the result
MergeUrlFromResult(fm, res) ==
  IF UrlTruthy(res.postUrl) THEN res.postUrl
  ELSE IF UrlTruthy(fm.wp_url) THEN fm.wp_url
  ELSE IF res.postId # 0 THEN PUrl(res.postId)
  ELSE fm.wp_url

\* a variant that builds the URL from the postId before it looks at postUrl
MergeUrlIdFirst(fm, res) ==
  IF UrlTruthy(fm.wp_url) THEN fm.wp_url
  ELSE IF res.postId # 0 THEN PUrl(res.postId)
  ELSE IF UrlTruthy(res.postUrl) THEN res.postUrl
  ELSE fm.wp_url

\* wp_url: a truthy value of the file is kept, else the postUrl of the
\* result is taken, else "<endpoint>/?p=<postId>" is built
MergeUrl(fm, res) ==
  IF UrlTruthy(fm.wp_url) THEN fm.wp_url
  ELSE IF UrlTruthy(res.postUrl) THEN res.postUrl
  ELSE IF res.postId # 0 THEN PUrl(res.postId)
  ELSE fm.wp_url

MergePostType(fm, pp) ==
  IF fm.wp_ptype # NoStr THEN fm.wp_ptype
  ELSE IF pp.postType # NoStr /\ pp.postType # "" THEN pp.postType
  ELSE fm.wp_ptype

\* a variant that prefers the names converted from the IDs of the file
MergeCategoriesExistingFirst(fm, pp, catNew, catExisting) ==
  IF IsSome(catExisting) THEN Some(FromNames(Get(catExisting)))
  ELSE IF IsSome(catNew) THEN Some(FromNames(Get(catNew)))
  ELSE IF Len(pp.categories) > 0 THEN Some(FromIds(pp.categories))
  ELSE fm.wp_categories

\* catNew: categoryNamesForNewPost (also categoryNamesForUpdate);
\* catExisting: categoryNamesForExisting
MergeCategories(fm, pp, catNew, catExisting) ==
  IF IsSome(catNew) THEN Some(FromNames(Get(catNew)))
  ELSE IF IsSome(catExisting) THEN Some(FromNames(Get(catExisting)))
  ELSE IF Len(pp.categories) > 0 THEN Some(FromIds(pp.categories))
  ELSE fm.wp_categories

\* a variant that takes an empty originalTagNames for "no input" and keeps
\* the tags of the file
MergeTagsKeepOnEmpty(fm, pp, origTags) ==
  IF IsSome(origTags) /\ Get(origTags) # <<>> THEN origTags
  ELSE IF IsSome(fm.wp_tags) THEN fm.wp_tags
  ELSE Some(pp.tags)

\* origTags: originalTagNames, None when the caller passes none
MergeTags(fm, pp, origTags) ==
  IF IsSome(origTags) THEN origTags ELSE Some(pp.tags)

MergeTitle(fm, pp, basename) ==
  IF fm.wp_title # NoStr THEN fm.wp_title
  ELSE IF pp.title # "" /\ pp.title # basename THEN pp.title
  ELSE fm.wp_title

\* a variant that writes a new block of the six keys
BuiltinMergeSixKeys(fm, res, pp, catNew, catExisting, origTags, basename) ==
  Block(MergeUrl(fm, res), ProfileName, MergePostType(fm, pp),
        MergeCategories(fm, pp, catNew, catExisting),
        MergeTags(fm, pp, origTags), MergeTitle(fm, pp, basename))

\* the built-in policy, before updateMatterData runs: the callback assigns
\* the six keys of fm and touches no other
BuiltinMerge(fm, res, pp, catNew, catExisting, origTags, basename) ==
  [fm EXCEPT !.wp_url = MergeUrl(fm, res),
             !.wp_profile = ProfileName,
             !.wp_ptype = MergePostType(fm, pp),
             !.wp_categories = MergeCategories(fm, pp, catNew, catExisting),
             !.wp_tags = MergeTags(fm, pp, origTags),
             !.wp_title = MergeTitle(fm, pp, basename)]

\* a variant in which the callback is not run
UpdateMatterDataSkipped(fm, override, pp) == fm

\* updateMatterData, the callback the publish modal hands to its submit
\* handler: "none" when the caller supplies none
UpdateMatterData(fm, override, pp) ==
  IF override = "ptype" THEN [fm EXCEPT !.wp_ptype = pp.postType] ELSE fm

(***************************************************************************)
(* publishPost: entry guard, lock and configuration checks                 *)
(***************************************************************************)
\* a variant of the entry guard that lets every invocation in
NeverRejected == FALSE

\* the entry guard: if (AbstractWordPressClient.publishInProgress) throw
EntryRejected == publishInProgress

\* a variant that releases the lock only when the attempt succeeded
LockKeptOnFailure(outcome) == outcome # "ok"

\* the lock when publishPost has left its try statement with the given
\* outcome: the finally block clears it
LockAfterFinally(outcome) == FALSE

\* What is left of an attempt when publishPost has returned: its locals are
\* gone; the outcome, the document, the file its result was merged into, the
\* post it created, whether it called the backend, how this.publish failed
\* and the error it showed at the end are what the caller, the user and the
\* backend have seen of it.
Returned(r, outcome, shown) ==
  [InitAtt EXCEPT !.pc = "returned", !.outcome = outcome, !.doc = r.doc,
                  !.acquired = r.acquired, !.created = r.created,
                  !.mfile = r.mfile, !.callFailed = r.callFailed,
                  !.remote = r.remote, !.errors = IF shown THEN 1 ELSE 0]

\* publishPost returns (or rethrows) from attempt record r: the catch and
\* finally blocks run with no await in between
Leave(a, r, outcome, shown) ==
  /\ att' = [att EXCEPT ![a] = Returned(r, outcome, shown)]
  /\ publishInProgress' = LockAfterFinally(outcome)

\* an Error thrown inside tryToPublish, or inside the modal's submit handler
\* around it: publishPost's catch on the direct path, the handler's catch
\* (showError, the modal stays open, the promise stays pending) on the modal path
Throw(a, r, outcome) ==
  IF r.viaModal
  THEN /\ att' = [att EXCEPT ![a] = [r EXCEPT !.pc = "modal", !.errors = r.errors + 1]]
       /\ UNCHANGED publishInProgress
  ELSE Leave(a, r, outcome, TRUE)

\* the user invokes publishPost
Invoked(a) ==
  /\ a = started + 1
  /\ a <= invocations
  /\ att[a].pc = "idle"
  /\ started' = a

Entered(a, file) ==
  [att[a] EXCEPT !.doc = file,
                 !.afterAll = \A b \in 1..(a - 1) : att[b].pc = "returned"]

StartRejected(a) ==
  /\ Invoked(a)
  /\ EntryRejected
  /\ \E file \in Files : Leave(a, Entered(a, file), "rejected", TRUE)
  /\ UNCHANGED <<meta, marker, body, config, invocations, vault, callers,
                 lastSelected, posts>>

\* a variant that validates the stored credentials before it looks at the
\* endpoint and the active file
ConfigErrorAfterValidation(a) ==
  /\ Invoked(a)
  /\ ~EntryRejected
  /\ \E file \in Files :
       /\ ~config.endpoint \/ file = NoFile
       /\ Leave(a, [Entered(a, file) EXCEPT !.acquired = TRUE, !.remote = TRUE],
                IF ~config.endpoint THEN "noEndpoint" ELSE "noFile", TRUE)
  /\ UNCHANGED <<meta, marker, body, config, invocations, vault, callers,
                 lastSelected, posts>>

\* the lock is taken, and the endpoint or the active file is missing: the
\* Error goes to publishPost's catch and finally
StartConfigError(a) ==
  /\ Invoked(a)
  /\ ~EntryRejected
  /\ \E file \in Files :
       /\ ~config.endpoint \/ file = NoFile
       /\ Leave(a, [Entered(a, file) EXCEPT !.acquired = TRUE],
                IF ~config.endpoint THEN "noEndpoint" ELSE "noFile", TRUE)
  /\ UNCHANGED <<meta, marker, body, config, invocations, vault, callers,
                 lastSelected, posts>>

\* the lock is taken and getAuth starts: stored credentials are validated
\* against the backend, and without stored credentials auth stays null
Start(a) ==
  /\ Invoked(a)
  /\ ~EntryRejected
  /\ config.endpoint
  /\ publishInProgress' = TRUE
  /\ \E file \in vault, hasDefault \in callers :
       att' = [att EXCEPT ![a] =
                 [Entered(a, file) EXCEPT !.acquired = TRUE, !.hasDefault = hasDefault,
                                    !.pc = IF config.creds # "none" THEN "auth"
                                           ELSE "read",
                                    !.auth = IF config.creds # "none" THEN "none"
                                             ELSE "null",
                                    !.validations = GetAuthCalls("auth", 1),
                                    !.remote = config.creds # "none"]]
  /\ UNCHANGED <<meta, marker, body, config, invocations, vault, callers,
                 lastSelected, posts>>

\* a variant that goes on with the stored credentials when they are rejected
AuthReturnsIgnoresAnswer(a) ==
  /\ att[a].pc = "auth"
  /\ att' = [att EXCEPT ![a] = [@ EXCEPT !.pc = "read", !.auth = "stored"]]
  /\ UNCHANGED <<publishInProgress, meta, marker, body, config, invocations, vault, callers,
                 lastSelected,
                 posts, started>>

\* validateUser answers for the stored credentials
AuthReturns(a) ==
  /\ att[a].pc = "auth"
  /\ att' = [att EXCEPT ![a] =
               IF config.creds = "valid" THEN [@ EXCEPT !.pc = "read", !.auth = "stored"]
               ELSE [@ EXCEPT !.pc = "login", !.errors = @ + 1]]
  /\ UNCHANGED <<publishInProgress, meta, marker, body, config, invocations, vault, callers,
                 lastSelected,
                 posts, started>>

\* the user enters credentials in the login modal, which validates them
LoginDone(a) ==
  /\ att[a].pc = "login"
  /\ att' = [att EXCEPT ![a] = [@ EXCEPT !.pc = "read", !.auth = "entered"]]
  /\ UNCHANGED <<publishInProgress, meta, marker, body, config, invocations, vault, callers,
                 lastSelected,
                 posts, started>>

(***************************************************************************)
(* publishPost: reading the document, profile check, classification        *)
(***************************************************************************)
\* matterData is ready: checkExistingProfile opens the confirm modal on a
\* profile mismatch
AfterRead(r, m) ==
  [r EXCEPT !.matter = m, !.readUrl = m.wp_url,
            !.pc = IF ProfileMismatch(m) THEN "confirm" ELSE "classify"]

\* wp_ markers in the text but no wp_ key parsed
ReadParseError(a) ==
  /\ att[a].pc = "read"
  /\ HasWpText(meta[att[a].doc], marker[att[a].doc])
  /\ ~HasWpKeys(meta[att[a].doc])
  /\ Leave(a, att[a], "parseError", TRUE)
  /\ UNCHANGED <<meta, marker, body, config, invocations, vault, callers,
                 lastSelected, posts, started>>

\* processFile and vault.read of the file that was active at entry
ReadFile(a) ==
  /\ att[a].pc = "read"
  /\ LET m == meta[att[a].doc]
         r == [att[a] EXCEPT !.content = body[att[a].doc]]
     IN
       /\ ~(HasWpText(m, marker[att[a].doc]) /\ ~HasWpKeys(m))
       /\ att' = [att EXCEPT ![a] =
                    IF ~HasWpKeys(m) /\ FileSize(att[a].doc) > 0
                    THEN [r EXCEPT !.matter = m, !.pc = "retry"]
                    ELSE AfterRead(r, m)]
  /\ UNCHANGED <<publishInProgress, meta, marker, body, config, invocations, vault, callers,
                 lastSelected,
                 posts, started>>

\* the second processFile, 100 ms later
Retry(a) ==
  /\ att[a].pc = "retry"
  /\ LET again == meta[att[a].doc] IN
       att' = [att EXCEPT ![a] =
                 AfterRead(@, IF HasWpKeys(again) THEN ObjectAssign(@.matter, again)
                              ELSE @.matter)]
  /\ UNCHANGED <<publishInProgress, meta, marker, body, config, invocations, vault, callers,
                 lastSelected,
                 posts, started>>

\* the user answers the profile-mismatch confirm modal
ConfirmProfile(a) ==
  /\ att[a].pc = "confirm"
  /\ \E useNew \in BOOLEAN :
       att' = [att EXCEPT ![a] =
                 [@ EXCEPT !.pc = "classify", !.useNew = useNew,
                           !.matter = IF useNew THEN UseNewProfile(@, lastSelected)
                                      ELSE @]]
  /\ UNCHANGED <<publishInProgress, meta, marker, body, config, invocations, vault, callers,
                 lastSelected,
                 posts, started>>

\* the branch "defaultPostParams || hasExistingPost": parameters come from
\* the metadata, and tryToPublish starts
ClassifyDirect(a) ==
  /\ att[a].pc = "classify"
  /\ att[a].hasDefault \/ HasExistingPost(att[a].matter)
  /\ LET m == att[a].matter
         listOk == config.listOk
         slugFound == config.slugFound
         base == IF att[a].hasDefault THEN DefaultParams
                 ELSE BaseParams(m, lastSelected, listOk)
     IN att' = [att EXCEPT ![a] =
                    [@ EXCEPT !.pc = "tags",
                              !.class = IF HasExistingPost(m) THEN "update" ELSE "create",
                              !.pp = ReadFromFrontMatter(Basename(att[a].doc), m, base,
                                                         lastSelected, listOk, slugFound),
                              !.origTags = IF IsSome(m.wp_tags) THEN Get(m.wp_tags)
                                           ELSE <<>>,
                              !.ppContent = att[a].content, !.log = <<>>,
                              !.catNotices = CategoriesNotices(m, lastSelected, listOk)
                                             + ReadNotices(m, lastSelected, listOk),
                              !.validations =
                                 @ \o GetAuthCalls("read", ReadAuthCalls(m, lastSelected)),
                              !.remote = TRUE]]
  /\ UNCHANGED <<publishInProgress, meta, marker, body, config, invocations, vault, callers,
                 lastSelected,
                 posts, started>>

\* the other branch: getCategories throws
ClassifyModalFails(a) ==
  /\ att[a].pc = "classify"
  /\ ~(att[a].hasDefault \/ HasExistingPost(att[a].matter))
  /\ ~config.listOk
  /\ Leave(a, [att[a] EXCEPT !.class = "create", !.remote = TRUE], "error", TRUE)
  /\ UNCHANGED <<meta, marker, body, config, invocations, vault, callers,
                 lastSelected, posts, started>>

\* the other branch: the publish modal opens, and publishPost awaits the
\* promise that only a successful submit resolves
ClassifyModal(a) ==
  /\ att[a].pc = "classify"
  /\ ~(att[a].hasDefault \/ HasExistingPost(att[a].matter))
  /\ config.listOk
  /\ att' = [att EXCEPT ![a] =
               [@ EXCEPT !.pc = "modal", !.class = "create",
                         !.catNotices = CategoriesNotices(att[a].matter, lastSelected,
                                                          config.listOk),
                         !.modalOpened = TRUE, !.remote = TRUE]]
  /\ UNCHANGED <<publishInProgress, meta, marker, body, config, invocations, vault, callers,
                 lastSelected,
                 posts, started>>

(***************************************************************************)
(* The publish modal                                                       *)
(***************************************************************************)
\* the category IDs a user may select in the modal
ModalSelections == {<<1>>, <<2>>}

\* the user confirms: the submit handler reads the parameters and starts
\* tryToPublish
ModalConfirm(a) ==
  /\ att[a].pc = "modal"
  /\ att[a].submits < MaxSubmits
  /\ \E sel \in ModalSelections :
       LET m == att[a].matter
           override == config.override
           listOk == config.listOk
           slugFound == config.slugFound
           chosen == PostParams(PostTypePost, sel, <<>>, "", 0, NoStr)
       IN att' = [att EXCEPT ![a] =
                    [@ EXCEPT !.pc = "tags", !.viaModal = TRUE,
                              !.submits = @ + 1, !.override = override,
                              !.pp = ReadFromFrontMatter(Basename(att[a].doc), m, chosen,
                                                         lastSelected, listOk, slugFound),
                              !.origTags = IF IsSome(m.wp_tags) THEN Get(m.wp_tags)
                                           ELSE <<>>,
                              !.ppContent = att[a].content, !.log = <<>>,
                              !.catNotices = @ + ReadNotices(m, lastSelected, listOk),
                              !.validations =
                                 @ \o GetAuthCalls("read", ReadAuthCalls(m, lastSelected)),
                              !.ups = <<>>, !.sentBody = None]]
  /\ UNCHANGED <<publishInProgress, meta, marker, body, config, invocations, vault, callers,
                 lastSelected,
                 posts, started>>

\* a variant in which closing the modal shows a failure notice
ModalCancelNotifies(a) ==
  /\ att[a].pc = "modal"
  /\ att' = [att EXCEPT ![a] = [@ EXCEPT !.pc = "cancelled", !.errors = @ + 1]]
  /\ UNCHANGED <<publishInProgress, meta, marker, body, config, invocations, vault, callers,
                 lastSelected,
                 posts, started>>

\* the user closes the modal without submitting: nothing resolves the promise
\* publishPost awaits
ModalCancel(a) ==
  /\ att[a].pc = "modal"
  /\ att' = [att EXCEPT ![a] = [@ EXCEPT !.pc = "cancelled"]]
  /\ UNCHANGED <<publishInProgress, meta, marker, body, config, invocations, vault, callers,
                 lastSelected,
                 posts, started>>

(***************************************************************************)
(* tryToPublish                                                            *)
(***************************************************************************)
RECURSIVE SettledUntilFailure(_, _)
\* a variant that gives up at the first rejected call
SettledUntilFailure(tags, failed) ==
  IF tags = <<>> \/ Head(failed) THEN <<>>
  ELSE <<TagId(Head(tags))>> \o SettledUntilFailure(Tail(tags), Tail(failed))

RECURSIVE Settled(_, _)
\* getTags: the IDs of the terms whose getTag call was fulfilled; failed[i]
\* says that the call for tags[i] was rejected
Settled(tags, failed) ==
  IF tags = <<>> THEN <<>>
  ELSE (IF Head(failed) THEN <<>> ELSE <<TagId(Head(tags))>>)
       \o Settled(Tail(tags), Tail(failed))

\* getTags: Promise.allSettled over one getTag call per tag name
ResolveTags(a) ==
  /\ att[a].pc = "tags"
  /\ \E failed \in [1..Len(att[a].pp.tags) -> BOOLEAN] :
       att' = [att EXCEPT ![a] =
                 [@ EXCEPT !.pc = "relay",
                           !.log = @ \o [i \in 1..Len(att[a].pp.tags) |-> "getTag"]
                                     \o <<"tagsSettled">>,
                           !.tagCalls = [i \in 1..Len(att[a].pp.tags) |->
                                           [name |-> att[a].pp.tags[i], ok |-> ~failed[i]]],
                           !.pp = [@ EXCEPT !.tags = Settled(att[a].pp.tags, failed)]]]
  /\ UNCHANGED <<publishInProgress, meta, marker, body, config, invocations, vault, callers,
                 lastSelected,
                 posts, started>>

\* updatePostImages throws when no file is active
RelayNoFile(a) ==
  /\ att[a].pc = "relay"
  /\ Throw(a, att[a], "error")
  /\ UNCHANGED <<meta, marker, body, config, invocations, vault, callers,
                 lastSelected, posts, started>>

\* a variant that sends the body as it was read from the document
CallingWithReadBody(r) ==
  [r EXCEPT !.pc = "calling", !.pubCalls = Append(@, r.pp.postId),
            !.sentBody = Some(r.content), !.log = Append(@, "publish")]

\* this.publish is called with the title, the rendered postParams.content
\* and postParams
Calling(r) ==
  [r EXCEPT !.pc = "calling", !.pubCalls = Append(@, r.pp.postId),
            !.sentBody = Some(r.ppContent), !.log = Append(@, "publish")]

\* editor.setValue(postParams.content) when replaceMediaLinks is set: the
\* live text of the document in the active editor is overwritten
SetValue(file, content) ==
  IF config.replace /\ file # NoFile THEN [body EXCEPT ![file] = content] ELSE body

\* the event of an uploadMedia answer: a Notice is shown for every error
UploadEvent(answer) ==
  CASE answer = "ok" -> "uploaded"
    [] answer = "serverError" -> "warnServerMessage"
    [] OTHER -> "warnUploadFailed"

\* updatePostImages has nothing to upload (no active editor, or no local
\* image): it returns, and this.publish is called.  editor: the document
\* of the active editor, NoFile when there is none
CallPublish(a) ==
  /\ att[a].pc = "relay"
  /\ \E editor \in Files :
       /\ editor = NoFile \/ Uploadable(att[a].ppContent) = <<>>
       /\ body' = SetValue(editor, att[a].ppContent)
       /\ att' = [att EXCEPT ![a] = Calling(@)]
  /\ UNCHANGED <<publishInProgress, meta, marker, config, invocations, vault, callers,
                 lastSelected, posts, started>>

\* updatePostImages finds local images: the first is read and uploaded
RelayUploads(a) ==
  /\ att[a].pc = "relay"
  /\ Uploadable(att[a].ppContent) # <<>>
  /\ \E editor \in vault :
       att' = [att EXCEPT ![a] =
                 [@ EXCEPT !.pc = "uploading", !.editorFile = editor,
                           !.todo = Uploadable(att[a].ppContent),
                           !.log = Append(@, "upload")]]
  /\ UNCHANGED <<publishInProgress, meta, marker, body, config, invocations, vault, callers,
                 lastSelected, posts, started>>

\* uploadMedia answers for the image at the head of todo: on OK the first
\* occurrence of its original text is replaced by the embed of the returned
\* URL, else a Notice is shown; then the next image is uploaded, or, after
\* the last one, setValue runs and this.publish is called
UploadReturns(a) ==
  /\ att[a].pc = "uploading"
  /\ \E answer \in UploadAnswers :
       LET img == Head(att[a].todo)
           rewritten == IF answer = "ok"
                        THEN ReplaceFirst(att[a].ppContent, img, Embed(img, MediaUrl(img.src)))
                        ELSE att[a].ppContent
           r == [att[a] EXCEPT !.ppContent = rewritten, !.todo = Tail(@),
                               !.ups = Append(@, answer),
                               !.log = Append(@, UploadEvent(answer))]
       IN IF r.todo # <<>>
          THEN /\ att' = [att EXCEPT ![a] = [r EXCEPT !.log = Append(@, "upload")]]
               /\ UNCHANGED body
          ELSE /\ att' = [att EXCEPT ![a] = Calling(r)]
               /\ body' = SetValue(r.editorFile, rewritten)
  /\ UNCHANGED <<publishInProgress, meta, marker, config, invocations, vault, callers,
                 lastSelected, posts, started>>

\* a variant in which an error result still stamps the profile on the block
PublishErrorMerges(a) ==
  /\ att[a].pc = "calling"
  /\ meta' = [meta EXCEPT ![att[a].doc] = [@ EXCEPT !.wp_profile = ProfileName]]
  /\ Throw(a, [att[a] EXCEPT !.callFailed = "error"], "error")
  /\ UNCHANGED <<marker, body, config, invocations, vault, callers, lastSelected, posts, started>>

\* this.publish answers with an error result
PublishError(a) ==
  /\ att[a].pc = "calling"
  /\ Throw(a, [att[a] EXCEPT !.callFailed = "error"], "error")
  /\ UNCHANGED <<meta, marker, body, config, invocations, vault, callers,
                 lastSelected, posts, started>>

\* this.publish rejects with a value that is no Error: both catch blocks
\* rethrow it
PublishThrows(a) ==
  /\ att[a].pc = "calling"
  /\ IF att[a].viaModal
     THEN /\ att' = [att EXCEPT ![a] = [@ EXCEPT !.pc = "modal", !.callFailed = "thrown"]]
          /\ UNCHANGED publishInProgress
     ELSE Leave(a, [att[a] EXCEPT !.callFailed = "thrown"], "rethrown", FALSE)
  /\ UNCHANGED <<meta, marker, body, config, invocations, vault, callers,
                 lastSelected, posts, started>>

\* the URL the backend reports for post id
ReportedUrl(form, id) ==
  CASE form = "p" -> PUrl(id)
    [] form = "slug" -> SlugUrl(id)
    [] OTHER -> NoUrl

\* this.publish answers with a result: without a postId in the parameters the
\* backend has created a post, with one it has updated that post
PublishOk(a) ==
  /\ att[a].pc = "calling"
  /\ \E activeFile \in Files :
       LET withId == config.shape[1]
           form == config.shape[2]
           creates == att[a].pp.postId = 0
           id == IF creates THEN posts + 1 ELSE att[a].pp.postId
       IN /\ posts' = IF creates THEN posts + 1 ELSE posts
          /\ att' = [att EXCEPT ![a] =
                       [@ EXCEPT !.pc = IF activeFile = NoFile THEN "side" ELSE "premerge",
                                 !.mfile = activeFile,
                                 !.created = IF creates THEN id ELSE @,
                                 !.res = [postId |-> IF withId THEN id ELSE 0,
                                          postUrl |-> ReportedUrl(form, id),
                                          categories |-> att[a].pp.categories]]]
  /\ UNCHANGED <<publishInProgress, meta, marker, body, config, invocations, vault, callers,
                 lastSelected,
                 started>>

\* the category names are computed before processFrontMatter: from the
\* outgoing IDs, and from the IDs the file holds now
PreMerge(a) ==
  /\ att[a].pc = "premerge"
  /\ LET pp == att[a].pp
         cur == meta[att[a].mfile].wp_categories
         listOk == config.listOk
     IN att' = [att EXCEPT ![a] =
                    [@ EXCEPT !.pc = "merge",
                              !.validations =
                                 @ \o GetAuthCalls("premerge", PreMergeAuthCalls(pp, cur)),
                              !.catNew = IF Len(pp.categories) > 0
                                         THEN Some(ConvertCategoryIdsToNames(pp.categories,
                                                                             listOk))
                                         ELSE None,
                              !.catExisting =
                                 IF IsSome(cur) /\ Len(Get(cur)) > 0 /\ ~Get(cur)[1].isName
                                 THEN Some(ConvertCategoryIdsToNames(AsIds(Get(cur)), listOk))
                                 ELSE None]]
  /\ UNCHANGED <<publishInProgress, meta, marker, body, config, invocations, vault, callers,
                 lastSelected,
                 posts, started>>

\* processFrontMatter: one read-modify-write of the block of the file that
\* was active when this.publish answered
Merge(a) ==
  /\ att[a].pc = "merge"
  /\ LET r == att[a]
         fm == meta[r.mfile]
         built == BuiltinMerge(fm, r.res, r.pp, r.catNew, r.catExisting,
                               Some(r.origTags), Basename(r.mfile))
     IN /\ meta' = [meta EXCEPT ![r.mfile] =
                      IF r.viaModal THEN UpdateMatterData(built, r.override, r.pp)
                      ELSE built]
        /\ att' = [att EXCEPT ![a] =
                     [@ EXCEPT !.pc = "side", !.merges = @ + 1,
                               !.mergePre = Some(fm), !.mergeBuiltin = Some(built)]]
  /\ UNCHANGED <<publishInProgress, marker, body, config, invocations, vault, callers,
                 lastSelected,
                 posts, started>>

\* the post-success side effects, then tryToPublish returns its result and
\* publishPost returns it (on the modal path: the modal is closed and the
\* promise resolved)
Finish(a) ==
  /\ att[a].pc = "side"
  /\ lastSelected' =
       IF att[a].res.postId # 0 /\ config.remember
       THEN Some(FromNames(ConvertCategoryIdsToNames(att[a].res.categories,
                                                     config.listOk)))
       ELSE lastSelected
  /\ Leave(a, [att[a] EXCEPT !.validations =
                                @ \o GetAuthCalls("side", SideAuthCalls(att[a].res))],
           "ok", FALSE)
  /\ UNCHANGED <<meta, marker, body, config, invocations, vault, callers, posts, started>>

\* the remembered categories are assigned and this.plugin.saveSettings()
\* rejects: the await is outside the try around the conversion, so the
\* error leaves tryToPublish
SaveSettingsFails(a) ==
  /\ att[a].pc = "side"
  /\ att[a].res.postId # 0 /\ config.remember /\ ~config.saves
  /\ lastSelected' = Some(FromNames(ConvertCategoryIdsToNames(att[a].res.categories,
                                                              config.listOk)))
  /\ Throw(a, [att[a] EXCEPT !.validations =
                                @ \o GetAuthCalls("side", SideAuthCalls(att[a].res))],
           "settingsError")
  /\ UNCHANGED <<meta, marker, body, config, invocations, vault, callers, posts, started>>

(***************************************************************************)
(* Specification                                                           *)
(***************************************************************************)
\* the steps an attempt takes by itself: the backend, the vault and timers
\* answer
ProgramStep(a) ==
  \/ AuthReturns(a) \/ ReadParseError(a) \/ ReadFile(a) \/ Retry(a)
  \/ ClassifyDirect(a) \/ ClassifyModalFails(a) \/ ClassifyModal(a)
  \/ ResolveTags(a) \/ RelayNoFile(a) \/ CallPublish(a)
  \/ RelayUploads(a) \/ UploadReturns(a)
  \/ PublishError(a) \/ PublishThrows(a) \/ PublishOk(a)
  \/ PreMerge(a) \/ Merge(a) \/ Finish(a) \/ SaveSettingsFails(a)

\* what another actor writes into a block
EditedTags == <<"t2">>
EditedCategories == <<CName("Uncategorized")>>

\* between the processFile of publishPost and the processFrontMatter of
\* tryToPublish the block of the document is changed in the vault: the
\* attempt holds the matterData it read, the file holds the edit
UserEdits(d) ==
  /\ config.edits
  /\ d \in vault
  /\ \E a \in Attempts :
       att[a].doc = d /\ att[a].class # "none" /\ att[a].pc \notin {"side", "returned"}
  /\ meta[d].wp_tags # Some(EditedTags)
  /\ meta' = [meta EXCEPT ![d] = [@ EXCEPT !.wp_tags = Some(EditedTags),
                                           !.wp_categories = Some(EditedCategories)]]
  /\ UNCHANGED <<publishInProgress, marker, body, config, invocations, vault, callers,
                 lastSelected, posts, started, att>>

\* the steps only the user takes
UserStep(a) ==
  \/ StartRejected(a) \/ StartConfigError(a) \/ Start(a)
  \/ LoginDone(a) \/ ConfirmProfile(a) \/ ModalConfirm(a) \/ ModalCancel(a)

Next ==
  \/ \E a \in Attempts : ProgramStep(a)
  \/ \E a \in Attempts : UserStep(a)
  \/ \E d \in Docs : UserEdits(d)

Spec == Init /\ [][Next]_vars

(***************************************************************************)
(* Properties                                                              *)
(***************************************************************************)
\* attempts past the entry guard whose publishPost has not returned
InFlight == {a \in Attempts : att[a].acquired /\ att[a].pc # "returned"}

\* the step in which the entry guard throws for attempt a
RejectionStep(a) == att[a].pc = "idle" /\ att'[a].outcome = "rejected"

\* C1: mutual exclusion - at any time at most one attempt is past the entry
\* guard and has not yet returned.
C1_MutualExclusion == Cardinality(InFlight) <= 1

\* C2: an invocation made while the lock is held returns at once with the
\* "already in progress" error shown, has issued no remote call, and no
\* document's metadata block and no post of the backend has changed.
C2_RejectedFailsFast ==
  [][\A a \in Attempts :
       att[a].pc = "idle" /\ att'[a].pc # "idle" /\ publishInProgress
       => /\ att'[a].pc = "returned"
          /\ att'[a].outcome = "rejected"
          /\ att'[a].errors = 1
          /\ ~att'[a].remote
          /\ ~att'[a].acquired
          /\ meta' = meta
          /\ posts' = posts]_vars

\* C2 witness: the second invocation was rejected for document d2 while the
\* first, for document d1, is still in flight.
C2_Witness ==
  \E a, b \in Attempts :
    /\ a # b
    /\ att[a].pc \notin {"idle", "returned"} /\ att[a].doc = "d1"
    /\ att[b].outcome = "rejected" /\ att[b].doc = "d2"

\* C3: the step in which the entry guard rejects an attempt changes nothing
\* but the record of that attempt; the lock is still held afterwards.
C3_RejectionMutatesNothing ==
  [][\A a \in Attempts :
       RejectionStep(a)
       => /\ publishInProgress' = publishInProgress
          /\ UNCHANGED <<meta, marker, body, lastSelected, posts>>]_vars

\* C4: when publishPost returns for an attempt that acquired the lock, the
\* lock is free, whatever the outcome.
C4_ReleasedOnReturn ==
  [][\A a \in Attempts :
       att[a].pc # "returned" /\ att'[a].pc = "returned" /\ att'[a].acquired
       => ~publishInProgress']_vars

\* C4 witness: one attempt returned a success, another rethrew a value that
\* is no Error, and the lock is free.
C4_Witness ==
  /\ ~publishInProgress
  /\ \E a, b \in Attempts :
       /\ att[a].pc = "returned" /\ att[a].acquired /\ att[a].outcome = "ok"
       /\ att[b].pc = "returned" /\ att[b].acquired /\ att[b].outcome = "rethrown"

\* the step in which attempt a merges a result into the metadata block
MergeStep(a) == att[a].pc = "merge" /\ att'[a].pc = "side"

\* C5: when the block holds a non-empty wp_url before the merge, the built-in
\* policy leaves wp_url as it was, whatever the result holds.
C5_UrlKept ==
  [][\A a \in Attempts :
       MergeStep(a) /\ UrlTruthy(meta[att[a].mfile].wp_url)
       => /\ Get(att'[a].mergeBuiltin).wp_url = meta[att[a].mfile].wp_url
          /\ meta'[att[a].mfile].wp_url = meta[att[a].mfile].wp_url]_vars

\* C5 as stated: when wp_url is present before the merge, empty or not, the
\* built-in policy leaves it as it was.
C5_PresentUrlKept ==
  [][\A a \in Attempts :
       MergeStep(a) /\ meta[att[a].mfile].wp_url.form # "absent"
       => Get(att'[a].mergeBuiltin).wp_url = meta[att[a].mfile].wp_url]_vars

\* C5 witness: a merge has kept a non-empty wp_url although the result
\* reported another URL.
C5_Witness ==
  \E a \in Attempts :
    /\ att[a].pc = "side" /\ IsSome(att[a].mergePre)
    /\ UrlTruthy(Get(att[a].mergePre).wp_url)
    /\ UrlTruthy(att[a].res.postUrl)
    /\ att[a].res.postUrl # Get(att[a].mergePre).wp_url
    /\ Get(att[a].mergeBuiltin).wp_url = Get(att[a].mergePre).wp_url

\* C6: after an attempt has created a post for a document and has stored the
\* result in that document, the publish call of a later attempt for the same
\* document, started when no other attempt was running, carries the
\* identifier of that post.
C6_SecondPublishUpdates ==
  \A a, b \in Attempts :
    /\ a < b
    /\ att[a].pc = "returned" /\ att[a].outcome = "ok"
    /\ att[a].created # 0 /\ att[a].mfile = att[a].doc
    /\ att[b].doc = att[a].doc /\ att[b].afterAll
    /\ \A c \in Attempts : c < b /\ c # a => att[c].created = 0 /\ att[c].mfile = NoFile
    /\ Len(att[b].pubCalls) > 0
    => att[b].pubCalls[1] = att[a].created

\* C7: an attempt is classified as an update exactly when the metadata it
\* read holds a non-empty wp_url that the profile check has not removed; a
\* create with given parameters never opens the publish modal; a create
\* without them has opened it and makes no publish call before a submit.
C7_Classification ==
  \A a \in Attempts :
    att[a].class # "none"
    => /\ att[a].class = "update" <=> (UrlTruthy(att[a].readUrl) /\ ~att[a].useNew)
       /\ att[a].class \in {"update", "create"}
       /\ att[a].class = "create" /\ att[a].hasDefault => ~att[a].modalOpened
       /\ att[a].class = "update" => ~att[a].modalOpened
       /\ att[a].class = "create" /\ ~att[a].hasDefault
          => att[a].modalOpened /\ Len(att[a].pubCalls) <= att[a].submits
       /\ att[a].pc \in {"tags", "relay", "calling"} /\ att[a].modalOpened
          => att[a].submits > 0

\* C7 as stated: an attempt is classified as an update exactly when the
\* metadata it read holds a non-empty wp_url.
C7_UpdateIffUrl ==
  \A a \in Attempts :
    att[a].class # "none" => (att[a].class = "update" <=> UrlTruthy(att[a].readUrl))

\* C7 witness: the document holds a non-empty wp_url of another profile, the
\* user chose the new profile, and the attempt, classified as a create, waits
\* in the publish modal.
C7_Witness ==
  \E a \in Attempts :
    /\ att[a].class = "create" /\ att[a].useNew /\ UrlTruthy(att[a].readUrl)
    /\ att[a].pc = "modal" /\ att[a].modalOpened /\ att[a].pubCalls = <<>>

\* C8: closing the publish modal changes nothing but the position of the
\* attempt - no publish call, no merge, no error shown, no block changed -
\* and the attempt does nothing afterwards.
C8_CancelDoesNothing ==
  [][\A a \in Attempts :
       /\ att[a].pc = "modal" /\ att'[a].pc = "cancelled"
          => /\ att'[a] = [att[a] EXCEPT !.pc = "cancelled"]
             /\ UNCHANGED <<meta, marker, body, lastSelected, posts>>
       /\ att[a].pc = "cancelled" => att'[a] = att[a]]_vars

\* C8 witness: an attempt was cancelled in the modal, has made no publish
\* call and shown no error, and its document is as it was at the start.
C8_Witness ==
  \E a \in Attempts :
    /\ att[a].pc = "cancelled" /\ att[a].pubCalls = <<>>
    /\ att[a].errors = 0 /\ att[a].merges = 0
    /\ meta[att[a].doc] = EmptyBlock

\* C9: an attempt whose modal was closed is not stuck: publishPost can still
\* take the step that returns.
C9_CancelledCanEnd ==
  \A a \in Attempts :
    att[a].pc = "cancelled" => ENABLED (ProgramStep(a) \/ UserStep(a))

\* C10: an attempt whose publish call answered with an error has shown the
\* failure and has returned.
C10_ErrorEndsAttempt ==
  \A a \in Attempts :
    att[a].callFailed = "error" => att[a].pc = "returned" /\ att[a].errors > 0

\* the step in which this.publish answers attempt a with an error result
ErrorResultStep(a) ==
  /\ att[a].pc = "calling" /\ att'[a].pc \in {"modal", "returned"}
  /\ att'[a].callFailed = "error"

\* the step in which attempt a runs the post-success side effects
SideEffectStep(a) == att[a].pc = "side" /\ att'[a].pc \in {"modal", "returned"}

\* C11: an attempt changes a metadata block only in its merge step, when it
\* holds a non-error result of its publish call; the step in which an error
\* result arrives changes no block; and when the side effects run, the merge
\* into the file that was active at the result has already been persisted.
C11_MergeAfterResultBeforeSideEffects ==
  [][/\ att' # att /\ meta' # meta
        => \E a \in Attempts :
             /\ MergeStep(a)
             /\ att[a].res # NoResult /\ Len(att[a].pubCalls) > 0
             /\ \A d \in Docs : d # att[a].mfile => meta'[d] = meta[d]
     /\ \A a \in Attempts :
          /\ ErrorResultStep(a) => meta' = meta /\ lastSelected' = lastSelected
          /\ SideEffectStep(a) /\ att[a].mfile # NoFile => att[a].merges > 0
          /\ lastSelected' # lastSelected => \E b \in Attempts : SideEffectStep(b)]_vars

\* C11 witness: an attempt has persisted its merge and has not yet run the
\* side effects that will remember its categories.
C11_Witness ==
  \E a \in Attempts :
    /\ att[a].pc = "side" /\ att[a].merges = 1 /\ config.remember
    /\ att[a].res.postId # 0 /\ lastSelected = None
    /\ meta[att[a].mfile].wp_profile = ProfileName
    /\ UrlTruthy(meta[att[a].mfile].wp_url)

\* the position of an event in the order tag resolution, media relay,
\* publish call
Rank(e) ==
  CASE e = "getTag" -> 1
    [] e = "tagsSettled" -> 2
    [] e = "publish" -> 4
    [] OTHER -> 3

RECURSIVE RelayBody(_, _, _)
\* the body after the relay: for every uploaded image, in the order of the
\* uploads, the reference is replaced by the embed of its URL when the
\* upload succeeded
RelayBody(content, imgs, answers) ==
  IF imgs = <<>> \/ answers = <<>> THEN content
  ELSE RelayBody(IF Head(answers) = "ok"
                 THEN ReplaceFirst(content, Head(imgs), Embed(Head(imgs), MediaUrl(Head(imgs).src)))
                 ELSE content,
                 Tail(imgs), Tail(answers))

\* C12: in the events of one tryToPublish the tag calls come first, then
\* their settlement, then the uploads one after the other, each answered
\* before the next starts, then the publish call; and the body of the
\* publish call is the body read from the document as the relay rewrote it.
C12_TagsRelayPublish ==
  \A a \in Attempts :
    LET log == att[a].log IN
      /\ \A i, j \in 1..Len(log) : i < j => Rank(log[i]) <= Rank(log[j])
      /\ \A i \in 1..Len(log) :
           log[i] = "upload" /\ i < Len(log)
           => log[i + 1] \in {"uploaded", "warnServerMessage", "warnUploadFailed"}
      /\ IsSome(att[a].sentBody)
         => /\ log # <<>> /\ log[Len(log)] = "publish"
            /\ att[a].todo = <<>>
            /\ Get(att[a].sentBody)
                 = RelayBody(att[a].content, Uploadable(att[a].content), att[a].ups)
            /\ att[a].ups # <<>> => Len(att[a].ups) = Len(Uploadable(att[a].content))

\* C12 witness: the publish call was made after a tag call and two uploads,
\* one of which failed, and its body differs from the body that was read.
C12_Witness ==
  \E a \in Attempts :
    /\ att[a].pc = "calling"
    /\ Len(att[a].ups) = 2 /\ att[a].ups[1] = "ok" /\ att[a].ups[2] # "ok"
    /\ \E i \in 1..Len(att[a].log) : att[a].log[i] = "getTag"
    /\ Get(att[a].sentBody) # att[a].content

\* every element of a categories value is a name
AllNames(cats) == \A i \in 1..Len(cats) : cats[i].isName

\* C13: once an attempt has returned successfully, the categories of the
\* block of the document it published, when the block has any, are all
\* names.
C13_CategoriesAreNames ==
  \A a \in Attempts :
    att[a].pc = "returned" /\ att[a].outcome = "ok"
    => LET cats == meta[att[a].doc].wp_categories
       IN IsSome(cats) => AllNames(Get(cats))

\* every merge that ran wrote names: the conversion of the merge itself
\* produces no ID
C13_MergeWritesNames ==
  [][\A a \in Attempts :
       MergeStep(a)
       => LET cats == meta'[att[a].mfile].wp_categories
          IN IsSome(cats) => AllNames(Get(cats))]_vars

\* C14: the tags a merge writes are the original tag names the caller
\* supplied, whatever tags the block held before: an empty original list
\* gives tags = [].
C14_OriginalTagsWin ==
  [][\A a \in Attempts :
       MergeStep(a)
       => /\ Get(att'[a].mergeBuiltin).wp_tags = Some(att[a].origTags)
          /\ meta'[att[a].mfile].wp_tags = Some(att[a].origTags)]_vars

\* C14 witness: a merge with an empty original list has run on a block that
\* held a tag, and the block now holds tags = [].
C14_Witness ==
  \E a \in Attempts :
    /\ att[a].pc = "side" /\ att[a].merges = 1
    /\ att[a].origTags = <<>>
    /\ Get(att[a].mergePre).wp_tags = Some(<<"t1">>)
    /\ meta[att[a].mfile].wp_tags = Some(<<>>)

\* the publish keys a block holds
PublishKeys(m) ==
  {k \in {"wp_url", "wp_profile", "wp_ptype", "wp_categories", "wp_tags", "wp_title"} :
     CASE k = "wp_url" -> m.wp_url.form # "absent"
       [] k = "wp_profile" -> m.wp_profile # NoStr
       [] k = "wp_ptype" -> m.wp_ptype # NoStr
       [] k = "wp_categories" -> IsSome(m.wp_categories)
       [] k = "wp_tags" -> IsSome(m.wp_tags)
       [] OTHER -> m.wp_title # NoStr}

\* C15: the block the built-in merge policy yields holds every key the block
\* held before, holds the keys other than the six publish keys as they
\* were, and holds the post type and the title the block held before when
\* it held one.
C15_MergeFrame ==
  [][\A a \in Attempts :
       MergeStep(a)
       => LET pre == meta[att[a].mfile]
              post == Get(att'[a].mergeBuiltin)
          IN /\ PublishKeys(pre) \subseteq PublishKeys(post)
             /\ post.other = pre.other
             /\ pre.wp_ptype # NoStr => post.wp_ptype = pre.wp_ptype
             /\ pre.wp_title # NoStr => post.wp_title = pre.wp_title
             /\ ~att[a].viaModal => meta'[att[a].mfile] = post]_vars

\* C15 witness: a merge has run on a block that held another key, a post
\* type and a title, for an attempt whose outgoing post type and title
\* differ from them.
C15_Witness ==
  \E a \in Attempts :
    /\ att[a].pc = "side" /\ att[a].merges = 1
    /\ LET pre == Get(att[a].mergePre)
       IN /\ pre.other # {}
          /\ pre.wp_ptype \notin {NoStr, att[a].pp.postType}
          /\ pre.wp_title \notin {NoStr, att[a].pp.title}
          /\ meta[att[a].mfile].other = pre.other
          /\ meta[att[a].mfile].wp_ptype = pre.wp_ptype

\* the attempt has read nothing of the document and sent nothing but the
\* validation of credentials
NothingReadOrSent(r) ==
  /\ r.matter = EmptyBlock /\ r.content = <<>> /\ r.pp = NoParams
  /\ r.pubCalls = <<>> /\ r.log = <<>> /\ r.res = NoResult

\* C16: with stored credentials, while they are being validated (and while
\* the login modal is open after their rejection) the attempt has read
\* nothing and sent nothing else; afterwards it holds the stored
\* credentials when they were accepted and the credentials the login modal
\* returned when they were rejected.
C16_StoredCredentialsFirst ==
  \A a \in Attempts :
    config.creds # "none"
    => /\ att[a].pc \in {"auth", "login"}
          => NothingReadOrSent(att[a]) /\ att[a].auth = "none"
       /\ att[a].pc = "login" => config.creds = "invalid" /\ att[a].errors > 0
       /\ att[a].pc \notin {"idle", "auth", "login", "returned"}
          => att[a].auth = IF config.creds = "valid" THEN "stored" ELSE "entered"

\* C16 witness: the stored credentials were rejected and the attempt calls
\* the backend with the credentials of the login modal.
C16_Witness ==
  \E a \in Attempts :
    /\ config.creds = "invalid"
    /\ att[a].pc = "calling" /\ att[a].auth = "entered" /\ att[a].errors > 0

\* C17: without stored credentials an attempt never goes on with null
\* credentials: it reads the document and calls the backend only with
\* credentials the login modal returned.
C17_NoNullCredentials ==
  \A a \in Attempts :
    config.creds = "none" /\ att[a].pc \notin {"idle", "login", "returned"}
    => att[a].auth = "entered"

\* C18: an attempt that holds a non-error result, has persisted its merge
\* and has come to the side effects leaves them by returning that result: the attempt ends with
\* success and without an error shown.
C18_SuccessSurvivesSideEffects ==
  [][\A a \in Attempts :
       att[a].pc = "side" /\ att[a].merges > 0 /\ att'[a].pc # "side"
       => /\ att'[a].pc = "returned"
          /\ att'[a].outcome = "ok"
          /\ att'[a].errors = 0]_vars

\* the terms of the calls that were fulfilled, in the order of the calls
FulfilledTerms(calls) ==
  LET ok == SelectSeq(calls, LAMBDA c : c.ok)
  IN [i \in 1..Len(ok) |-> TagId(ok[i].name)]

\* C19: getTags issues one call per tag name, all of them before the
\* batch settles, and whatever calls fail it yields the terms of the
\* fulfilled calls in the order of the names; the attempt goes on to the
\* media relay.
C19_TagsPartialSuccess ==
  [][\A a \in Attempts :
       att[a].pc = "tags" /\ att'[a] # att[a]
       => LET names == att[a].pp.tags
              calls == att'[a].tagCalls
          IN /\ att'[a].pc = "relay"
             /\ Len(calls) = Len(names)
             /\ \A i \in 1..Len(names) : calls[i].name = names[i]
             /\ att'[a].pp.tags = FulfilledTerms(calls)
             /\ att'[a].log = att[a].log \o [i \in 1..Len(names) |-> "getTag"]
                                         \o <<"tagsSettled">>
             /\ att'[a].errors = att[a].errors]_vars

\* C19 witness: of two tag calls the first failed and the second was
\* fulfilled, and the attempt is at the media relay with the second term.
C19_Witness ==
  \E a \in Attempts :
    /\ att[a].pc = "relay"
    /\ Len(att[a].tagCalls) = 2
    /\ ~att[a].tagCalls[1].ok /\ att[a].tagCalls[2].ok
    /\ att[a].pp.tags = <<TagId("t2")>>

\* the category names the checks of the converter draw from, and the lists
\* of at most MaxNames of them
MaxNames == 3
CatNames == {"News", "NEWS", "Ghost", "Uncategorized"}
NameLists == UNION {[1..n -> CatNames] : n \in 0..MaxNames}

\* the remote categories whose name equals n when case is ignored
Matches(n) ==
  {i \in 1..Len(RemoteCats) : Lower(RemoteCats[i].name) = Lower(n)}

\* out is what the claim allows for names: not empty, without duplicates,
\* the ID of the matched category for every matched name, 1 for every
\* unmatched name and nothing else; <<1>> when the list cannot be fetched
ConvertedOk(names, listOk, out) ==
  LET matched == {i \in 1..Len(names) : Matches(names[i]) # {}}
      unmatched == (1..Len(names)) \ matched
      has(id) == \E k \in 1..Len(out) : out[k] = id
  IN /\ out # <<>>
     /\ \A i, j \in 1..Len(out) : i # j => out[i] # out[j]
     /\ ~listOk => out = <<1>>
     /\ listOk
        => /\ \A i \in matched : \E c \in Matches(names[i]) : has(RemoteCats[c].id)
           /\ unmatched # {} => has(1)
           /\ \A k \in 1..Len(out) :
                \/ \E i \in matched : \E c \in Matches(names[i]) : RemoteCats[c].id = out[k]
                \/ out[k] = 1 /\ (unmatched # {} \/ names = <<>>)

\* the attempt has built its parameters from a block whose categories are
\* names
ConvertedFromNames(r) ==
  /\ r.pc \in {"tags", "relay", "uploading", "calling"}
  /\ r.matter.wp_ptype \in {NoStr, PostTypePost}
  /\ IsSome(r.matter.wp_categories)
  /\ Len(Get(r.matter.wp_categories)) > 0
  /\ Get(r.matter.wp_categories)[1].isName

\* C20: convertCategoryNamesToIds maps matched names to the IDs of their
\* categories, ignoring case, and unmatched names to 1, returns no
\* duplicate and never an empty list, and returns <<1>> when the remote
\* list cannot be fetched: for the categories of every attempt that read
\* names from its document, and, checked once in the first state of every
\* run, for every list of at most MaxNames names.
C20_NamesToIds ==
  /\ \A a \in Attempts :
       ConvertedFromNames(att[a])
       => ConvertedOk(AsNames(Get(att[a].matter.wp_categories)), config.listOk,
                      att[a].pp.categories)
  /\ started = 0
     => \A names \in NameLists :
          ConvertedOk(names, config.listOk,
                      ConvertCategoryNamesToIds(names, config.listOk))

\* C20 witness: an attempt read four names of which two match one category
\* in different case, one matches no category and one matches category 1,
\* and sends the IDs 2 and 1.
C20_Witness ==
  \E a \in Attempts :
    /\ ConvertedFromNames(att[a])
    /\ att[a].pc = "calling"
    /\ Len(Get(att[a].matter.wp_categories)) = 4
    /\ att[a].pp.categories = <<2, 1>>

\* the category IDs the checks of the converter draw from, and the lists of
\* at most MaxNames of them
CatIds == {1, 2, 3}
IdLists == UNION {[1..n -> CatIds] : n \in 0..MaxNames}

\* the remote categories with the given ID
MatchesId(id) == {i \in 1..Len(RemoteCats) : RemoteCats[i].id = id}

\* out is what the claim allows for ids: the names of the matched IDs in the
\* order of the input, the unmatched IDs left out, and the default name
\* alone when nothing is left or the list cannot be fetched
NamesOk(ids, listOk, out) ==
  LET kept == SelectSeq(ids, LAMBDA id : MatchesId(id) # {})
  IN IF ~listOk \/ kept = <<>> THEN out = <<"Uncategorized">>
     ELSE /\ Len(out) = Len(kept)
          /\ \A i \in 1..Len(kept) :
               \E c \in MatchesId(kept[i]) : RemoteCats[c].name = out[i]

\* C21: convertCategoryIdsToNames yields the names of the IDs that match a
\* remote category, in input order, drops the IDs that match none, and
\* yields the default name alone when nothing is left or the remote list
\* cannot be fetched: for the outgoing categories of every attempt about to
\* merge, and, checked once in the first state of every run, for every list
\* of at most MaxNames IDs.
C21_IdsToNames ==
  /\ \A a \in Attempts :
       att[a].pc = "merge" /\ Len(att[a].pp.categories) > 0
       => /\ IsSome(att[a].catNew)
          /\ NamesOk(att[a].pp.categories, config.listOk, Get(att[a].catNew))
  /\ started = 0
     => \A ids \in IdLists :
          NamesOk(ids, config.listOk, ConvertCategoryIdsToNames(ids, config.listOk))

\* C21 witness: an attempt that sent the IDs 3 and 2, of which 3 matches no
\* category, is about to merge the one name of ID 2.
C21_Witness ==
  \E a \in Attempts :
    /\ att[a].pc = "merge"
    /\ att[a].pp.categories = <<3, 2>>
    /\ att[a].catNew = Some(<<"News">>)

\* out is the remembered selection of the profile as IDs, or <<1>> when
\* the profile remembers none
RememberedOk(last, listOk, out) ==
  IF IsSome(last) /\ Len(Get(last)) > 0
  THEN IF Get(last)[1].isName THEN ConvertedOk(AsNames(Get(last)), listOk, out)
       ELSE out = AsIds(Get(last))
  ELSE out = <<1>>

\* the step in which an attempt builds the parameters of its remote call from
\* the metadata it read, for a document of post type 'post'
ParamsStep(a) ==
  /\ att[a].pc \in {"classify", "modal"} /\ att'[a].pc = "tags"
  /\ att[a].matter.wp_ptype \in {NoStr, PostTypePost}

\* out is what the categories array cats of the metadata resolves to when it
\* is not absent
PresentCatsOk(cats, last, listOk, out) ==
  IF Len(Get(cats)) = 0 THEN RememberedOk(last, listOk, out)
  ELSE IF Get(cats)[1].isName THEN ConvertedOk(AsNames(Get(cats)), listOk, out)
  ELSE out = AsIds(Get(cats))

\* C22 as stated: names are resolved as names, numbers are used as they
\* are, and an empty or absent array falls back to the remembered selection
\* of the profile, or to <<1>>.
C22_Detection ==
  [][\A a \in Attempts :
       ParamsStep(a)
       => LET cats == att[a].matter.wp_categories
              out == att'[a].pp.categories
          IN IF IsSome(cats) THEN PresentCatsOk(cats, lastSelected, config.listOk, out)
             ELSE RememberedOk(lastSelected, config.listOk, out)]_vars

\* C22 amended: names are resolved as names, numbers are used as they are,
\* and an empty array falls back to the remembered selection of the
\* profile, or to <<1>>; an absent array leaves the categories of the
\* parameters the attempt started from: the defaultPostParams of the caller,
\* the selection of the publish modal, and the remembered selection or <<1>>
\* only when the caller passed no parameters.
C22_DetectionOfPresent ==
  [][\A a \in Attempts :
       ParamsStep(a)
       => LET cats == att[a].matter.wp_categories
              out == att'[a].pp.categories
          IN IF IsSome(cats) THEN PresentCatsOk(cats, lastSelected, config.listOk, out)
             ELSE IF att[a].pc = "modal" THEN out \in ModalSelections
             ELSE IF att[a].hasDefault THEN out = DefaultParams.categories
             ELSE RememberedOk(lastSelected, config.listOk, out)]_vars

\* C22 witness: an attempt on a document with an empty categories array is
\* about to resolve tags with the ID of the category the profile remembers.
C22_Witness ==
  \E a \in Attempts :
    /\ att[a].pc = "tags"
    /\ att[a].matter.wp_categories = Some(<<>>)
    /\ lastSelected = Some(<<CName("News")>>)
    /\ att[a].pp.categories = <<2>>

\* C23: an update attempt on a document whose categories are names of which
\* one has no remote match has shown one warning about it when it calls the
\* backend, and sends 1 in its place.
C23_OneWarning ==
  \A a \in Attempts :
    /\ att[a].pc = "calling" /\ att[a].class = "update"
    /\ att[a].matter.wp_ptype \in {NoStr, PostTypePost}
    /\ config.listOk
    /\ NoticesOf(att[a].matter.wp_categories, TRUE) = 1
    => /\ att[a].catNotices = 1
       /\ \E k \in 1..Len(att[a].pp.categories) : att[a].pp.categories[k] = 1

\* the positions in a body of the images updatePostImages uploads, in the
\* order of the uploads: the md references, then the wiki references
UploadPositions(content) ==
  LET local(i) == ~content[i].srcIsUrl /\ content[i].found
      idx == [i \in 1..Len(content) |-> i]
  IN SelectSeq(idx, LAMBDA i : content[i].form = "md" /\ local(i))
       \o SelectSeq(idx, LAMBDA i : content[i].form = "wiki" /\ local(i))

\* the warnings among the events of an attempt
Warnings(log) == SelectSeq(log, LAMBDA e : e \in {"warnServerMessage", "warnUploadFailed"})

\* C24: when the publish call is made after a relay in which an upload
\* failed, every local image was uploaded, the reference of every image
\* whose upload succeeded is the embed of its URL, the reference of every
\* image whose upload failed is as it was read, and one warning was shown
\* for every failed upload: the server's message for a server error, the
\* generic message otherwise.
C24_Containment ==
  \A a \in Attempts :
    /\ att[a].pc = "calling"
    /\ \E k \in 1..Len(att[a].ups) : att[a].ups[k] # "ok"
    => LET read == att[a].content
           sent == Get(att[a].sentBody)
           pos == UploadPositions(read)
           ups == att[a].ups
       IN /\ Len(ups) = Len(pos)
          /\ \A k \in 1..Len(pos) :
               sent[pos[k]] = IF ups[k] = "ok"
                              THEN Embed(read[pos[k]], MediaUrl(read[pos[k]].src))
                              ELSE read[pos[k]]
          /\ Warnings(att[a].log)
               = [k \in 1..Len(SelectSeq(ups, LAMBDA u : u # "ok")) |->
                    IF SelectSeq(ups, LAMBDA u : u # "ok")[k] = "serverError"
                    THEN "warnServerMessage" ELSE "warnUploadFailed"]

\* C25: an attempt starts no more uploads than its body has local image
\* references, and the body it sends holds every reference whose source is
\* a URL as it was read.
C25_UrlsUntouched ==
  \A a \in Attempts :
    LET read == att[a].content
        uploads == SelectSeq(att[a].log, LAMBDA e : e = "upload")
    IN /\ Len(uploads) <= Len(UploadPositions(read))
       /\ Len(att[a].ups) <= Len(uploads)
       /\ IsSome(att[a].sentBody)
          => /\ Len(Get(att[a].sentBody)) = Len(read)
             /\ \A i \in 1..Len(read) :
                  read[i].srcIsUrl => Get(att[a].sentBody)[i] = read[i]

\* C25 witness: the publish call is made after both local images of a body
\* were uploaded and rewritten, and the reference to a URL between them is
\* as it was read.
C25_Witness ==
  \E a \in Attempts :
    /\ att[a].pc = "calling"
    /\ att[a].ups = <<"ok", "ok">>
    /\ Len(att[a].content) = 3 /\ att[a].content[2].srcIsUrl
    /\ Get(att[a].sentBody)[2] = att[a].content[2]
    /\ Get(att[a].sentBody)[1] # att[a].content[1]
    /\ Get(att[a].sentBody)[3] # att[a].content[3]

\* the number of occurrences of x in a sequence
Count(seq, x) == Cardinality({i \in 1..Len(seq) : seq[i] = x})

\* the embed of url with the size annotation of img as it was found
AnnotatedEmbed(img, url) == Img("wiki", url, img.w, img.h, TRUE, FALSE)

\* C26: the body an attempt sends is the body it read in which, for every
\* upload that succeeded, one occurrence of the text of the uploaded
\* reference has become the embed of the returned URL with the width and the
\* height of the reference as they were found, and nothing else has changed.
C26_EmbedKeepsSize ==
  \A a \in Attempts :
    att[a].pc = "calling"
    => LET read == att[a].content
           sent == Get(att[a].sentBody)
           imgs == Uploadable(read)
           done == {k \in 1..Len(att[a].ups) : att[a].ups[k] = "ok"}
           texts == {read[i] : i \in 1..Len(read)} \cup {sent[i] : i \in 1..Len(sent)}
       IN /\ Len(sent) = Len(read)
          /\ \A x \in texts :
               Count(sent, x)
                 = Count(read, x)
                   - Cardinality({k \in done : imgs[k] = x})
                   + Cardinality({k \in done :
                                    AnnotatedEmbed(imgs[k], MediaUrl(imgs[k].src)) = x})

\* C26 witness: the publish call is made with the embed of the wiki
\* reference carrying 300x200 and the embed of the md reference carrying 40.
C26_Witness ==
  \E a \in Attempts :
    /\ att[a].pc = "calling"
    /\ att[a].content = ImageBody
    /\ Get(att[a].sentBody)[1] = Img("wiki", MediaUrl("cat.png"), "300", "200", TRUE, FALSE)
    /\ Get(att[a].sentBody)[3] = Img("wiki", MediaUrl("dog.png"), "40", "", TRUE, FALSE)

\* the modal-path attempt a, started on a document without a metadata block,
\* returns its result for a post the backend has created
FirstPublishReturns(a) ==
  /\ att[a].pc = "side" /\ att'[a].pc = "returned" /\ att'[a].outcome = "ok"
  /\ att[a].viaModal /\ att[a].class = "create"
  /\ ~HasWpKeys(att[a].matter) /\ att[a].matter.other = {}
  /\ att[a].created # 0

\* the block holds what the first publish scenario lists, for the selection sel
FirstPublishBlock(b, sel) ==
  /\ UrlTruthy(b.wp_url)
  /\ b.wp_profile = ProfileName
  /\ b.wp_ptype # NoStr
  /\ b.wp_categories = Some(FromNames(ConvertCategoryIdsToNames(sel, TRUE)))

\* C27: when an attempt for a document without a metadata block returns
\* after the user confirmed the publish modal and the backend created the
\* post, the block of that document holds wp_url, wp_profile equal to the
\* active profile's name, wp_ptype, and wp_categories with the names of the
\* selected category IDs.
C27_FirstPublish ==
  [][\A a \in Attempts :
       FirstPublishReturns(a)
       => FirstPublishBlock(meta'[att[a].doc], att[a].pp.categories)]_vars

\* the same when the document was the active file as the result arrived and
\* the result carries a post ID or a post URL
C27_FirstPublishMerged ==
  [][\A a \in Attempts :
       /\ FirstPublishReturns(a)
       /\ att[a].mfile = att[a].doc
       /\ att[a].res.postId # 0 \/ UrlTruthy(att[a].res.postUrl)
       => FirstPublishBlock(meta'[att[a].doc], att[a].pp.categories)]_vars

ConfigOutcomes == {"noEndpoint", "noFile"}

\* C28: an invocation that finds no endpoint configured or no active file
\* returns in that step with an error shown once, without any call to the
\* backend, with every metadata block, the post count and the remembered
\* categories unchanged and with the publish lock free; nothing more
\* happens in that attempt afterwards.
C28_ConfigurationErrors ==
  [][\A a \in Attempts :
       /\ att[a].pc = "idle" /\ att'[a].outcome \in ConfigOutcomes
          => /\ att'[a].pc = "returned"
             /\ att'[a].errors = 1
             /\ ~att'[a].remote /\ att'[a].pubCalls = <<>> /\ att'[a].created = 0
             /\ att'[a].merges = 0 /\ att'[a].mfile = NoFile
             /\ meta' = meta /\ body' = body /\ posts' = posts
             /\ lastSelected' = lastSelected
             /\ ~publishInProgress'
       /\ att[a].outcome \in ConfigOutcomes => att'[a] = att[a]]_vars

\* a later invocation found no active file after an earlier attempt had
\* stored its result; the lock is free
C28_Witness ==
  \E a, b \in Attempts :
    /\ b < a
    /\ att[b].pc = "returned" /\ att[b].outcome = "ok" /\ att[b].mfile = att[b].doc
    /\ att[a].pc = "returned" /\ att[a].outcome = "noFile" /\ att[a].errors = 1
    /\ ~att[a].remote
    /\ ~publishInProgress

\* C29: every validateUser call of an attempt is the one of the getAuth at
\* the start of publishPost: at most one per attempt, none once the document
\* has been read and classified, none after this.publish has answered.
C29_ValidationOnlyWhenAuthenticating ==
  \A a \in Attempts :
    /\ Len(att[a].validations) <= 1
    /\ \A i \in 1..Len(att[a].validations) : att[a].validations[i] = "auth"

\* the order of the states themselves: the metadata is read and classified
\* only with the answer of getAuth
C29_AuthenticatedBeforeClassifying ==
  \A a \in Attempts :
    att[a].pc \notin {"idle", "auth", "login", "returned"} => att[a].auth # "none"

\* the list holds category IDs (the legacy format)
LegacyList(cats) == IsSome(cats) /\ Len(Get(cats)) > 0 /\ ~Get(cats)[1].isName

\* the names of the remote categories with the given IDs, as a block holds them
NamesOf(ids) == Some(FromNames(ConvertCategoryIdsToNames(ids, config.listOk)))

\* C30: the wp_categories the built-in merge writes are the names converted
\* from the outgoing category IDs when the attempt carries categories;
\* otherwise the names converted from the legacy IDs the block holds;
\* otherwise the value the block held; raw IDs are written by no merge whose
\* conversion answered.
C30_CategoriesPrecedence ==
  [][\A a \in Attempts :
       MergeStep(a)
       => LET pre == meta[att[a].mfile].wp_categories
              out == Get(att'[a].mergeBuiltin).wp_categories
              sent == att[a].pp.categories
          IN /\ Len(sent) > 0 => out = NamesOf(sent)
             /\ Len(sent) = 0 /\ LegacyList(pre) => out = NamesOf(AsIds(Get(pre)))
             /\ Len(sent) = 0 /\ ~LegacyList(pre) => out = pre
             /\ out # pre => AllNames(Get(out))
             /\ out = pre /\ out # NamesOf(sent) => Len(sent) = 0]_vars

\* an attempt that carried no categories has merged into a block of legacy
\* IDs, of which the backend knows one, after an earlier attempt without
\* categories has merged into the block of names of the other document
C30_Witness ==
  \E a, b \in Attempts :
    /\ b < a
    /\ att[b].pc = "returned" /\ att[b].outcome = "ok" /\ att[b].mfile = "d2"
    /\ meta["d2"].wp_categories = Some(<<CName("News")>>)
    /\ att[a].pc = "side" /\ att[a].merges = 1 /\ att[a].mfile = "d1"
    /\ att[a].pp.categories = <<>>
    /\ Get(att[a].mergePre).wp_categories = Some(<<CId(2), CId(3)>>)
    /\ meta["d1"].wp_categories = Some(<<CName("News")>>)

\* C31: when the block holds no wp_url (or an empty one) before the merge,
\* the merge writes the postUrl of the result if there is one, else the URL
\* built from the endpoint and the postId of the result if there is one,
\* and else leaves wp_url as it was: an absent wp_url stays absent.
C31_UrlOfNewPost ==
  [][\A a \in Attempts :
       MergeStep(a) /\ ~UrlTruthy(meta[att[a].mfile].wp_url)
       => LET pre == meta[att[a].mfile].wp_url
              res == att[a].res
              out == Get(att'[a].mergeBuiltin).wp_url
          IN /\ UrlTruthy(res.postUrl) => out = res.postUrl
             /\ ~UrlTruthy(res.postUrl) /\ res.postId # 0 => out = PUrl(res.postId)
             /\ ~UrlTruthy(res.postUrl) /\ res.postId = 0 => out = pre
             /\ meta'[att[a].mfile].wp_url = out]_vars

\* a merge into a block without wp_url has built the URL from the postId of
\* a result that carries no postUrl
C31_Witness ==
  \E a \in Attempts :
    /\ att[a].pc = "side" /\ att[a].merges = 1
    /\ Get(att[a].mergePre).wp_url = NoUrl
    /\ ~UrlTruthy(att[a].res.postUrl) /\ att[a].res.postId # 0
    /\ meta[att[a].mfile].wp_url = PUrl(att[a].res.postId)

\* C32: one step reads the block, applies the built-in policy and then the
\* callback of the modal: what the callback writes (the post type) is what
\* the block holds after the step, the other keys hold what the built-in
\* policy decided, and without a callback the block is the built-in result;
\* no other block changes.
C32_OverrideRunsLast ==
  [][\A a \in Attempts :
       MergeStep(a)
       => LET f == att[a].mfile
              built == Get(att'[a].mergeBuiltin)
              writes == att[a].viaModal /\ att[a].override = "ptype"
          IN /\ att'[a].mergePre = Some(meta[f])
             /\ writes => meta'[f] = [built EXCEPT !.wp_ptype = att[a].pp.postType]
             /\ ~writes => meta'[f] = built
             /\ \A d \in Docs : d # f => meta'[d] = meta[d]]_vars

\* the callback has replaced the post type the built-in policy had kept
C32_Witness ==
  \E a \in Attempts :
    /\ att[a].pc = "side" /\ att[a].merges = 1 /\ att[a].viaModal
    /\ att[a].override = "ptype"
    /\ Get(att[a].mergePre).wp_ptype = "page"
    /\ Get(att[a].mergeBuiltin).wp_ptype = "page"
    /\ meta[att[a].mfile].wp_ptype = PostTypePost

\* C33: the merge of an attempt writes the block of the document the
\* attempt was started for, and an attempt that returns its result has
\* merged into that document; no step of an attempt changes the block of a
\* document for which no attempt is merging.
C33_MergeIntoStartedDocument ==
  [][\A a \in Attempts :
       /\ MergeStep(a) => att[a].mfile = att[a].doc
       /\ att[a].pc = "side" /\ att'[a].pc = "returned" /\ att'[a].outcome = "ok"
          => att[a].mfile = att[a].doc
       /\ \A d \in Docs :
            att'[a] # att[a] /\ meta'[d] # meta[d]
            => \E b \in Attempts : MergeStep(b) /\ att[b].doc = d]_vars

\* the part of C33 about documents that were not published
C33_OtherDocumentsUntouched ==
  [][\A d \in Docs :
       att' # att /\ meta'[d] # meta[d]
       => \E b \in Attempts : MergeStep(b) /\ att[b].doc = d]_vars

\* the URL under which the result reports the post, or the one built from
\* its postId
UrlOfResult(res) ==
  IF UrlTruthy(res.postUrl) THEN res.postUrl
  ELSE IF res.postId # 0 THEN PUrl(res.postId) ELSE NoUrl

\* C34: an attempt in which the user chose the new profile is a create, and
\* when its result (carrying a postUrl or a postId) is merged into its
\* document, the wp_url of the document is the URL of the post just created.
C34_NewProfileReplacesUrl ==
  [][\A a \in Attempts :
       /\ att[a].useNew /\ att[a].class # "none" => att[a].class = "create"
       /\ MergeStep(a) /\ att[a].useNew /\ att[a].mfile = att[a].doc
          /\ UrlTruthy(UrlOfResult(att[a].res))
          => meta'[att[a].doc].wp_url = UrlOfResult(att[a].res)]_vars

\* the first half of C34: choosing the new profile makes the attempt a
\* create, which sends no postId
C34_NewProfileCreates ==
  \A a \in Attempts :
    att[a].useNew /\ att[a].class # "none"
    => att[a].class = "create" /\ att[a].pp.postId = 0

\* C35: when the block of the document holds, at the merge, tags or
\* categories other than those the attempt read at its start, the merge
\* leaves them as they are.
C35_EditsSurviveMerge ==
  [][\A a \in Attempts :
       MergeStep(a) /\ att[a].mfile = att[a].doc /\ ~att[a].useNew
       => LET now == meta[att[a].doc]
              read == att[a].matter
              out == meta'[att[a].doc]
          IN /\ now.wp_tags # read.wp_tags => out.wp_tags = now.wp_tags
             /\ now.wp_categories # read.wp_categories
                => out.wp_categories = now.wp_categories]_vars

\* C36: when this.publish answers an attempt with an error result, no
\* metadata block has been or is changed by the attempt, and the live text
\* of its document is the text the attempt read at its start.
C36_ErrorLeavesDocument ==
  [][\A a \in Attempts :
       ErrorResultStep(a)
       => /\ meta' = meta /\ att[a].merges = 0
          /\ body' = body
          /\ body'[att[a].doc] = att[a].content]_vars

\* the part of C36 about the metadata and the step of the error itself
C36_ErrorStepWritesNothing ==
  [][\A a \in Attempts :
       ErrorResultStep(a)
       => meta' = meta /\ att[a].merges = 0 /\ body' = body]_vars

\* the text of document d holds a wp_ marker and its parsed block no wp_ key
Unparsed(d) == marker[d] /\ ~HasWpKeys(meta[d])

\* C37: an attempt that has got its credentials and reads a document whose
\* text holds a wp_ marker while the parsed block holds no wp_ key returns in
\* that step with the parsing error shown: it was never classified, has
\* listed no categories, opened no modal and called publish for nothing, no
\* block and no post has changed, and the lock is free; nothing more
\* happens in that attempt.
C37_AccidentalCreateGuard ==
  [][\A a \in Attempts :
       /\ att[a].pc = "read" /\ att'[a] # att[a] /\ Unparsed(att[a].doc)
          => /\ att'[a].pc = "returned" /\ att'[a].outcome = "parseError"
             /\ att'[a].errors = 1
             /\ att[a].class = "none" /\ ~att[a].modalOpened
             /\ att[a].pubCalls = <<>> /\ att[a].log = <<>>
             /\ att'[a].remote = (config.creds # "none")
             /\ att'[a].created = 0 /\ att'[a].mfile = NoFile
             /\ meta' = meta /\ body' = body /\ posts' = posts
             /\ ~publishInProgress'
       /\ att[a].outcome = "parseError" => att'[a] = att[a]]_vars

\* an attempt for a document with a wp_ marker in its text and no wp_ key
\* has returned with the parsing error, and the lock is free
C37_Witness ==
  \E a \in Attempts :
    /\ att[a].pc = "returned" /\ att[a].outcome = "parseError"
    /\ att[a].errors = 1 /\ att[a].acquired
    /\ Unparsed(att[a].doc)
    /\ ~publishInProgress

====
